---- MODULE Spec2Model ----
(***************************************************************************)
(* A model of the AXAML outline extension (src/src/extension.ts, the       *)
(* version at lines 560-1454): the line-oriented parser parseAxaml, the    *)
(* helpers it calls, findElementAtPosition, and the command / event        *)
(* handlers that keep the single-slot cache of the last parsed forest.     *)
(*                                                                         *)
(* Text.  A document is a sequence of physical lines (text.split('\n')).   *)
(* A line is a sequence of lexical tokens; every string operation of the   *)
(* source (trim, startsWith, includes, indexOf, length, the regular        *)
(* expressions) is computed over the characters the tokens stand for:      *)
(*   ws      one blank                         " "                         *)
(*   open    '<' and a tag name                "<Grid"                     *)
(*   gt      '>'                               ">"                         *)
(*   sgt     '/>'                              "/>"                        *)
(*   close   a whole closing tag               "</Grid>"                   *)
(*   attr    key="value"                       x:Name="n"                  *)
(*   text    character data without '<', '>'   "t"                         *)
(*   copen   the start of a comment            "<!--"                      *)
(*   cclose  the end of a comment              "-->"                       *)
(*   decl    an XML declaration                "<?xml?>"                   *)
(* A tag name is the sequence of its '.'-separated segments, so that       *)
(* "Grid.RowDefinitions" is <<"Grid", "RowDefinitions">>.                  *)
(*                                                                         *)
(* Objects.  AxamlElement objects live in the arena `nodes`; `elements`,   *)
(* `stack` and every `children` list hold references (indices) into it,    *)
(* as the JavaScript arrays hold references to the same objects.           *)
(***************************************************************************)
EXTENDS Integers, Sequences, FiniteSets, TLC

VARIABLES
    lines,      \* parseAxaml: const lines = text.split('\n')
    lineIndex,  \* parseAxaml: the for-loop cursor (0-based)
    nodes,      \* the AxamlElement objects created by the running call
    elements,   \* parseAxaml: const elements (references to the roots)
    stack,      \* parseAxaml: const stack (references to the open elements)
    pc,         \* control: "idle" | "loop" | "done" | "answer"
    result,     \* the forest the last completed call returned
    docText,    \* document.getText() of every open document
    activeEditor,           \* vscode.window.activeTextEditor.document
    currentDocument,        \* let currentDocument (null at first)
    currentAxamlElements,   \* let currentAxamlElements
    showLineNumbers,        \* let showLineNumbers
    caller,     \* the handler that is running
    toggle,     \* the refresh edits toggleLineNumbers still waits for
    arg,        \* the arguments of the call that is running
    out,        \* what the last call returned (for a handler, what it shows)
    fileName,       \* document.fileName of every open document
    languageId,     \* document.languageId of every open document
    errorMessages,  \* the showErrorMessage notifications of the running handler
    exception,      \* the exception that ended the last handler, "none" if none
    earlier,        \* while the provider returns: the outline its last call returned
    quickPick,      \* the items showQuickPick is showing, <<>> when none are
    cursorTimers,   \* the timeouts the selection listener has set
    selection,      \* editor.selection.active in the active editor
    warningMessages,    \* the showWarningMessage notifications of the running handler
    userText        \* history: every document as the user's edits alone make it

parserVars == <<lines, lineIndex, nodes, elements, stack>>
callVars == <<arg, out>>
\* what the typing of the user leaves alone
hostVarsButText ==
    <<fileName, languageId, errorMessages, exception, earlier, quickPick,
      cursorTimers, selection, warningMessages>>
hostVars == <<hostVarsButText, userText>>
editorVars ==
    <<docText, activeEditor, currentDocument, currentAxamlElements,
      showLineNumbers, caller, toggle, callVars, hostVars>>

\* the open documents, all of them .axaml files
DocIds == {1, 2}
Null == 0
NoToggle == [stage |-> "none", doc |-> Null]

\* pending: the callbacks set and not yet run; executed: the runs of
\* onCursorPositionChanged since the last selection-change event
NoTimers == [pending |-> 0, executed |-> 0]

\* setTimeout(() => onCursorPositionChanged(event.textEditor), 100): one more
\* callback is pending, none of those set before is cleared
SetTimeout(timers) == [pending |-> timers.pending + 1, executed |-> 0]

\* the file names and language ids a document may have
AxamlFileName == <<"a", ".", "a", "x", "a", "m", "l">>
UpperCaseFileName == <<"a", ".", "A", "X", "A", "M", "L">>
XmlFileName == <<"a", ".", "x", "m", "l">>

DotAxaml == <<".", "a", "x", "a", "m", "l">>

\* String.prototype.endsWith
EndsWith(str, suffix) ==
    /\ Len(str) >= Len(suffix)
    /\ SubSeq(str, Len(str) - Len(suffix) + 1, Len(str)) = suffix

\* every open document is an .axaml file of the language axaml, no handler
\* has run yet
HostAtStart ==
    /\ fileName = [d \in DocIds |-> AxamlFileName]
    /\ languageId = [d \in DocIds |-> "axaml"]
    /\ errorMessages = 0
    /\ exception = "none"
    /\ earlier = <<>>
    /\ quickPick = <<>>
    /\ cursorTimers = NoTimers
    /\ selection = [line |-> 0, character |-> 0]
    /\ warningMessages = 0
    /\ userText = docText

-----------------------------------------------------------------------------
(* Bounds *)

MaxLines == 3
MaxEditLines == 1

-----------------------------------------------------------------------------
(* Tokens and the characters they stand for *)

Tok(k, n) == [k |-> k, n |-> n]

WS == Tok("ws", <<>>)
GT == Tok("gt", <<>>)
SGT == Tok("sgt", <<>>)
OpenTok(name) == Tok("open", name)
CloseTok(name) == Tok("close", name)
AttrTok(key, value) == Tok("attr", <<key, value>>)
TextTok(str) == Tok("text", <<str>>)
CommentOpenTok == Tok("copen", <<>>)
CommentCloseTok == Tok("cclose", <<>>)
XmlDeclTok == Tok("decl", <<>>)

RECURSIVE SumLen(_)
SumLen(strs) ==
    IF strs = <<>> THEN 0 ELSE Len(Head(strs)) + SumLen(Tail(strs))

\* tagName.length: the segments and the dots between them
NameLength(name) == SumLen(name) + (Len(name) - 1)

\* the number of characters of a token
TokLen(t) ==
    CASE t.k = "ws" -> 1
      [] t.k = "gt" -> 1
      [] t.k = "sgt" -> 2
      [] t.k = "open" -> 1 + NameLength(t.n)
      [] t.k = "close" -> 2 + NameLength(t.n) + 1
      [] t.k = "attr" -> Len(t.n[1]) + 2 + Len(t.n[2]) + 1
      [] t.k = "text" -> Len(t.n[1])
      [] t.k = "copen" -> 4
      [] t.k = "cclose" -> 3
      [] t.k = "decl" -> 7

RECURSIVE StrLength(_)
\* String.prototype.length
StrLength(s) ==
    IF s = <<>> THEN 0 ELSE TokLen(Head(s)) + StrLength(Tail(s))

\* the tokens whose text contains '<', '>', "/>"
HasLt(t) == t.k \in {"open", "close", "copen", "decl"}
HasGt(t) == t.k \in {"gt", "sgt", "close", "cclose", "decl"}
HasSlashGt(t) == t.k = "sgt"

\* String.prototype.includes('>') and includes('/>')
IncludesGt(s) == \E i \in 1..Len(s) : HasGt(s[i])
IncludesSlashGt(s) == \E i \in 1..Len(s) : HasSlashGt(s[i])

\* the position of the first token satisfying a test, 0 if none
FirstTok(s, P(_)) ==
    IF \E i \in 1..Len(s) : P(s[i])
    THEN CHOOSE i \in 1..Len(s) : P(s[i]) /\ \A j \in 1..(i - 1) : ~P(s[j])
    ELSE 0

\* String.prototype.indexOf('<'): -1 if absent
IndexOfLt(s) ==
    LET i == FirstTok(s, HasLt)
    IN IF i = 0 THEN -1 ELSE StrLength(SubSeq(s, 1, i - 1))

\* String.prototype.trim
Trim(s) ==
    LET NotWs(t) == t.k # "ws"
        first == FirstTok(s, NotWs)
        last == IF first = 0 THEN 0
                ELSE CHOOSE i \in 1..Len(s) :
                        NotWs(s[i]) /\ \A j \in (i + 1)..Len(s) : ~NotWs(s[j])
    IN IF first = 0 THEN <<>> ELSE SubSeq(s, first, last)

\* trimmedLine.startsWith('</')
StartsWithCloseMark(s) == s # <<>> /\ s[1].k = "close"

\* trimmedLine.startsWith('<!--')
StartsWithCommentMark(s) == s # <<>> /\ s[1].k = "copen"

\* trimmedLine.startsWith('<?xml')
StartsWithXmlDecl(s) == s # <<>> /\ s[1].k = "decl"

\* trimmedLine.match(/<([a-zA-Z][a-zA-Z0-9.:_-]*)/): the position of the
\* first '<' followed by a letter, 0 if there is no match
TagMatch(s) ==
    LET IsOpen(t) == t.k = "open" IN FirstTok(s, IsOpen)

\* trimmedLine.match(/^<\/([a-zA-Z][a-zA-Z0-9.:_-]*)\s*>$/)
CloseTagMatch(s) == Len(s) = 1 /\ s[1].k = "close"

\* tagName.includes('.')
IncludesDot(name) == Len(name) > 1

\* the list with one entry forgotten
definitionTagsWithoutRowDefinition ==
    { <<"RowDefinitions">>, <<"ColumnDefinitions">>,
      <<"ColumnDefinition">>, <<"Resources">>, <<"Styles">>, <<"Style">>,
      <<"Setter">>, <<"Triggers">>, <<"DataTemplates">>, <<"ControlThemes">> }

definitionTags ==
    { <<"RowDefinitions">>, <<"ColumnDefinitions">>, <<"RowDefinition">>,
      <<"ColumnDefinition">>, <<"Resources">>, <<"Styles">>, <<"Style">>,
      <<"Setter">>, <<"Triggers">>, <<"DataTemplates">>, <<"ControlThemes">> }

-----------------------------------------------------------------------------
(* Map<string, string>: the entries in insertion order, keys unique *)

MapHas(m, key) == \E i \in 1..Len(m) : m[i][1] = key

\* Map.prototype.get, for a key that is present
MapGet(m, key) == m[CHOOSE i \in 1..Len(m) : m[i][1] = key][2]

\* Map.prototype.set: overwrite in place, or append
MapSet(m, key, value) ==
    IF MapHas(m, key)
    THEN [i \in 1..Len(m) |-> IF m[i][1] = key THEN <<key, value>> ELSE m[i]]
    ELSE Append(m, <<key, value>>)

\* `if (attributes.get(key))`: present and not the empty string
Truthy(m, key) == MapHas(m, key) /\ MapGet(m, key) # ""

RECURSIVE parseAttributes(_)
\* every key="value" of the attribute string, in order, the last one winning;
\* the value of an attr token holds no quote character and no blank
\* (ParseAttributes is the same function over the characters of any string)
parseAttributes(attributeStr) ==
    IF attributeStr = <<>> THEN <<>>
    ELSE LET front == SubSeq(attributeStr, 1, Len(attributeStr) - 1)
             t == attributeStr[Len(attributeStr)]
         IN IF t.k = "attr"
            THEN MapSet(parseAttributes(front), t.n[1], t.n[2])
            ELSE parseAttributes(front)

RECURSIVE JoinName(_)
\* the text of a tag name: its segments joined by '.'
JoinName(name) ==
    IF Len(name) = 1 THEN name
    ELSE <<Head(name), ".">> \o JoinName(Tail(name))

\* the label with Name tried before x:Name
DisplayNameNameFirst(tagName, attributes) ==
    IF Truthy(attributes, "Name") THEN <<MapGet(attributes, "Name")>>
    ELSE IF Truthy(attributes, "x:Name") THEN <<MapGet(attributes, "x:Name")>>
    ELSE IF tagName = <<"Button">> /\ Truthy(attributes, "Content")
         THEN <<"[Button \"", MapGet(attributes, "Content"), "\"]">>
    ELSE IF tagName = <<"TextBlock">> /\ Truthy(attributes, "Text")
         THEN <<"[TextBlock \"", MapGet(attributes, "Text"), "\"]">>
    ELSE <<"[">> \o JoinName(tagName) \o <<"]">>

\* the label that takes a name attribute as soon as it is written
DisplayNameOfWrittenName(tagName, attributes) ==
    IF MapHas(attributes, "x:Name") THEN <<MapGet(attributes, "x:Name")>>
    ELSE IF MapHas(attributes, "Name") THEN <<MapGet(attributes, "Name")>>
    ELSE IF tagName = <<"Button">> /\ Truthy(attributes, "Content")
         THEN <<"[Button \"", MapGet(attributes, "Content"), "\"]">>
    ELSE IF tagName = <<"TextBlock">> /\ Truthy(attributes, "Text")
         THEN <<"[TextBlock \"", MapGet(attributes, "Text"), "\"]">>
    ELSE <<"[">> \o JoinName(tagName) \o <<"]">>

\* a label is the sequence of the string pieces it is concatenated from
DisplayName(tagName, attributes) ==
    IF Truthy(attributes, "x:Name") THEN <<MapGet(attributes, "x:Name")>>
    ELSE IF Truthy(attributes, "Name") THEN <<MapGet(attributes, "Name")>>
    ELSE IF tagName = <<"Button">> /\ Truthy(attributes, "Content")
         THEN <<"[Button \"", MapGet(attributes, "Content"), "\"]">>
    ELSE IF tagName = <<"TextBlock">> /\ Truthy(attributes, "Text")
         THEN <<"[TextBlock \"", MapGet(attributes, "Text"), "\"]">>
    ELSE <<"[">> \o JoinName(tagName) \o <<"]">>

getElementDisplayName(tagName, attributesStr) ==
    DisplayName(tagName, parseAttributes(attributesStr))

\* fullTagContent.match(new RegExp(`<${tagName}\\s+([^>]*?)\\s*/?>`)), then
\* group 1 trimmed: the text after the first "<tagName" that a blank follows,
\* up to the first '>' behind it; '' when nothing matches.  The head of a
\* closing tag that may end the group ("</Name") holds no key="value" and is
\* left out.
AttributesStr(fullTagContent, tagName) ==
    LET s == fullTagContent
        Starts(i) ==
            /\ s[i] = OpenTok(tagName)
            /\ i < Len(s)
            /\ s[i + 1].k = "ws"
            /\ \E j \in (i + 1)..Len(s) : HasGt(s[j])
    IN IF \E i \in 1..Len(s) : Starts(i)
       THEN LET i == CHOOSE i \in 1..Len(s) :
                        Starts(i) /\ \A h \in 1..(i - 1) : ~Starts(h)
                j == CHOOSE j \in (i + 1)..Len(s) :
                        HasGt(s[j]) /\ \A h \in (i + 1)..(j - 1) : ~HasGt(s[h])
            IN Trim(SubSeq(s, i + 1, j - 1))
       ELSE <<>>

-----------------------------------------------------------------------------
(* parseAxaml: the state of a call and the branches of its loop body *)

Frame ==
    [lines |-> lines, lineIndex |-> lineIndex, nodes |-> nodes,
     elements |-> elements, stack |-> stack]

\* the locals of a fresh call
NewCall(text) ==
    [lines |-> text, lineIndex |-> 0, nodes |-> <<>>,
     elements |-> <<>>, stack |-> <<>>]

InLoop(f) == f.lineIndex < Len(f.lines)

Line(f) == f.lines[f.lineIndex + 1]
TrimmedLine(f) == Trim(Line(f))

\* `continue` and the loop's lineIndex++
Continue(f) == [f EXCEPT !.lineIndex = f.lineIndex + 1]

\* the skip test without its closing-tag clause
SkipLineCondWithoutCloseMark(f) ==
    \/ StartsWithCommentMark(TrimmedLine(f))
    \/ StartsWithXmlDecl(TrimmedLine(f))
    \/ TrimmedLine(f) = <<>>

\* skip comments, empty lines, XML declarations and closing-tag lines
SkipLineCond(f) ==
    \/ StartsWithCommentMark(TrimmedLine(f))
    \/ StartsWithXmlDecl(TrimmedLine(f))
    \/ TrimmedLine(f) = <<>>
    \/ StartsWithCloseMark(TrimmedLine(f))

HasTagMatch(f) == TagMatch(TrimmedLine(f)) # 0
TagName(f) == TrimmedLine(f)[TagMatch(TrimmedLine(f))].n

RECURSIVE CollectTag(_, _, _)
\* the while loop that appends the following trimmed lines until a '>'
CollectTag(ls, fullTagContent, currentLineIndex) ==
    IF ~IncludesGt(fullTagContent) /\ currentLineIndex < Len(ls) - 1
    THEN CollectTag(ls,
                    fullTagContent \o <<WS>> \o Trim(ls[currentLineIndex + 2]),
                    currentLineIndex + 1)
    ELSE [fullTagContent |-> fullTagContent,
          currentLineIndex |-> currentLineIndex]

IsSelfClosing(fullTagContent) == IncludesSlashGt(fullTagContent)

\* the element literal with its end put at column 0 of the end line
NewElementEndAtLineStart(f, tagName, tag) ==
    LET attributesStr == AttributesStr(tag.fullTagContent, tagName)
    IN [name |-> getElementDisplayName(tagName, attributesStr),
        tagName |-> tagName,
        attributes |-> parseAttributes(attributesStr),
        children |-> <<>>,
        startLine |-> f.lineIndex,
        endLine |-> tag.currentLineIndex,
        startColumn |-> IndexOfLt(Line(f)),
        endColumn |-> 0,
        isSelfClosing |-> IsSelfClosing(tag.fullTagContent)]

\* the element literal; isSelfClosing records the local of the same name
NewElement(f, tagName, tag) ==
    LET attributesStr == AttributesStr(tag.fullTagContent, tagName)
    IN [name |-> getElementDisplayName(tagName, attributesStr),
        tagName |-> tagName,
        attributes |-> parseAttributes(attributesStr),
        children |-> <<>>,
        startLine |-> f.lineIndex,
        endLine |-> tag.currentLineIndex,
        startColumn |-> IndexOfLt(Line(f)),
        endColumn |-> StrLength(f.lines[tag.currentLineIndex + 1]),
        isSelfClosing |-> IsSelfClosing(tag.fullTagContent)]

\* the element pushed to the root list also when it has a parent
AttachAlsoAsRoot(f, ref) ==
    IF f.stack = <<>>
    THEN [f EXCEPT !.elements = Append(@, ref)]
    ELSE [f EXCEPT !.elements = Append(@, ref),
                   !.nodes[f.stack[Len(f.stack)]].children = Append(@, ref)]

\* elements.push(element) or stack[stack.length - 1].children.push(element)
Attach(f, ref) ==
    IF f.stack = <<>>
    THEN [f EXCEPT !.elements = Append(@, ref)]
    ELSE [f EXCEPT !.nodes[f.stack[Len(f.stack)]].children = Append(@, ref)]

\* the element pushed whether or not it is self-closing
PushAlways(f, ref) == [f EXCEPT !.stack = Append(@, ref)]

\* if (!isSelfClosing) stack.push(element)
PushOpen(f, ref) ==
    IF ~f.nodes[ref].isSelfClosing
    THEN [f EXCEPT !.stack = Append(@, ref)]
    ELSE f

\* the body of `if (tagMatch)` for a tag that is not skipped
CreateElementStep(f) ==
    LET tag == CollectTag(f.lines, Line(f), f.lineIndex)
        element == NewElement(f, TagName(f), tag)
        ref == Len(f.nodes) + 1
        created == [f EXCEPT !.nodes = Append(@, element)]
        pushed == PushOpen(Attach(created, ref), ref)
    IN Continue([pushed EXCEPT !.lineIndex = tag.currentLineIndex])

\* stack.pop() and the update of the popped element's end
CloseElement(f) ==
    LET closedElement == f.stack[Len(f.stack)]
    IN [f EXCEPT !.stack = SubSeq(@, 1, Len(@) - 1),
                 !.nodes[closedElement].endLine = f.lineIndex,
                 !.nodes[closedElement].endColumn = StrLength(Line(f))]

\* the rest of the loop body, reached when the line has no tagMatch
HandleClosingTagStep(f) ==
    IF CloseTagMatch(TrimmedLine(f)) /\ f.stack # <<>>
    THEN Continue(CloseElement(f))
    ELSE Continue(f)

RECURSIVE TreeOf(_, _)
\* the object graph behind a reference, as a value
TreeOf(ns, ref) ==
    [name |-> ns[ref].name,
     tagName |-> ns[ref].tagName,
     attributes |-> ns[ref].attributes,
     startLine |-> ns[ref].startLine,
     endLine |-> ns[ref].endLine,
     startColumn |-> ns[ref].startColumn,
     endColumn |-> ns[ref].endColumn,
     children |-> [i \in 1..Len(ns[ref].children) |->
                      TreeOf(ns, ns[ref].children[i])]]

\* `return elements`: the array of root objects
Returned(f) == [i \in 1..Len(f.elements) |-> TreeOf(f.nodes, f.elements[i])]

\* (l1, c1) <= (l2, c2) in the order of positions
PosLeq(l1, c1, l2, c2) == l1 < l2 \/ (l1 = l2 /\ c1 <= c2)

-----------------------------------------------------------------------------
(* findElementAtPosition, over a returned forest *)

\* new vscode.Range(startPos, endPos).contains(position): the constructor
\* orders its two ends, and both ends belong to the range
RangeContains(element, line, column) ==
    LET startFirst == PosLeq(element.startLine, element.startColumn,
                             element.endLine, element.endColumn)
        sl == IF startFirst THEN element.startLine ELSE element.endLine
        sc == IF startFirst THEN element.startColumn ELSE element.endColumn
        el == IF startFirst THEN element.endLine ELSE element.startLine
        ec == IF startFirst THEN element.endColumn ELSE element.startColumn
    IN PosLeq(sl, sc, line, column) /\ PosLeq(line, column, el, ec)

RECURSIVE findElementAtPosition(_, _, _)
\* null is <<>>, an element e is <<e>>
findElementAtPosition(forest, line, column) ==
    IF \E i \in 1..Len(forest) : RangeContains(forest[i], line, column)
    THEN LET i == CHOOSE i \in 1..Len(forest) :
                     /\ RangeContains(forest[i], line, column)
                     /\ \A h \in 1..(i - 1) : ~RangeContains(forest[h], line, column)
             childElement == findElementAtPosition(forest[i].children, line, column)
         IN IF childElement # <<>> THEN childElement ELSE <<forest[i]>>
    ELSE <<>>

-----------------------------------------------------------------------------
(* parseAxaml as a function of the text *)

\* the loop body with a closing-tag handler that ends the last root when no
\* element is open
LoopBodyClosingLastRoot(f) ==
    IF CloseTagMatch(TrimmedLine(f)) /\ f.stack = <<>> /\ f.elements # <<>>
    THEN Continue([f EXCEPT
             !.nodes[f.elements[Len(f.elements)]].endLine = f.lineIndex,
             !.nodes[f.elements[Len(f.elements)]].endColumn = StrLength(Line(f))])
    ELSE IF SkipLineCond(f) THEN Continue(f)
    ELSE IF HasTagMatch(f)
         THEN IF IncludesDot(TagName(f)) THEN Continue(f)
              ELSE IF TagName(f) \in definitionTags THEN Continue(f)
              ELSE CreateElementStep(f)
         ELSE HandleClosingTagStep(f)

\* one iteration of the for loop
LoopBody(f) ==
    IF SkipLineCond(f) THEN Continue(f)
    ELSE IF HasTagMatch(f)
         THEN IF IncludesDot(TagName(f)) THEN Continue(f)
              ELSE IF TagName(f) \in definitionTags THEN Continue(f)
              ELSE CreateElementStep(f)
         ELSE HandleClosingTagStep(f)

RECURSIVE RunLoop(_)
\* the loop run to its end: the locals when `return elements` is reached
RunLoop(f) == IF InLoop(f) THEN RunLoop(LoopBody(f)) ELSE f

\* the forest parseAxaml returns for a text
ParseAxaml(text) == Returned(RunLoop(NewCall(text)))

-----------------------------------------------------------------------------
(* The parser as a state machine: one action per branch of the loop body *)

Commit(f) ==
    /\ lines' = f.lines
    /\ lineIndex' = f.lineIndex
    /\ nodes' = f.nodes
    /\ elements' = f.elements
    /\ stack' = f.stack

\* a call that goes on with the element store and the stack of the call
\* before it, as if they were fields of the provider
EnterCallKeepingStack(f, text) ==
    [NewCall(text) EXCEPT !.nodes = f.nodes, !.stack = f.stack]

\* a call parseAxaml(text) made with the variables as an earlier call left
\* them: the call declares its own lines, elements and stack
EnterCall(f, text) == NewCall(text)

SkipLine ==
    /\ pc = "loop"
    /\ InLoop(Frame)
    /\ SkipLineCond(Frame)
    /\ Commit(LoopBody(Frame))
    /\ UNCHANGED <<pc, result, editorVars>>

SkipPropertyTag ==
    /\ pc = "loop"
    /\ InLoop(Frame)
    /\ ~SkipLineCond(Frame)
    /\ HasTagMatch(Frame)
    /\ IncludesDot(TagName(Frame))
    /\ Commit(LoopBody(Frame))
    /\ UNCHANGED <<pc, result, editorVars>>

SkipDefinitionTag ==
    /\ pc = "loop"
    /\ InLoop(Frame)
    /\ ~SkipLineCond(Frame)
    /\ HasTagMatch(Frame)
    /\ ~IncludesDot(TagName(Frame))
    /\ TagName(Frame) \in definitionTags
    /\ Commit(LoopBody(Frame))
    /\ UNCHANGED <<pc, result, editorVars>>

CreateElement ==
    /\ pc = "loop"
    /\ InLoop(Frame)
    /\ ~SkipLineCond(Frame)
    /\ HasTagMatch(Frame)
    /\ ~IncludesDot(TagName(Frame))
    /\ TagName(Frame) \notin definitionTags
    /\ Commit(LoopBody(Frame))
    /\ UNCHANGED <<pc, result, editorVars>>

HandleClosingTag ==
    /\ pc = "loop"
    /\ InLoop(Frame)
    /\ ~SkipLineCond(Frame)
    /\ ~HasTagMatch(Frame)
    /\ Commit(LoopBody(Frame))
    /\ UNCHANGED <<pc, result, editorVars>>

Return ==
    /\ pc = "loop"
    /\ ~InLoop(Frame)
    /\ pc' = "done"
    /\ result' = Returned(Frame)
    /\ UNCHANGED <<parserVars, editorVars>>

ParseStep ==
    \/ SkipLine
    \/ SkipPropertyTag
    \/ SkipDefinitionTag
    \/ CreateElement
    \/ HandleClosingTag
    \/ Return

-----------------------------------------------------------------------------
(* The documents the parser is run on *)

Grid == <<"Grid">>
Button == <<"Button">>
GridRowDefinitions == <<"Grid", "RowDefinitions">>
RowDefinition == <<"RowDefinition">>
Style == <<"Style">>

LineKinds ==
    { <<OpenTok(Grid), GT>>,                          \* <Grid>
      <<WS, OpenTok(Button), SGT>>,                   \*  <Button/>
      <<CloseTok(Grid)>>,                             \* </Grid>
      <<OpenTok(Grid)>>,                              \* <Grid
      <<WS, AttrTok("x:Name", "n"), GT>>,             \*  x:Name="n">
      <<WS, AttrTok("x:Name", "n"), SGT>>,            \*  x:Name="n"/>
      <<OpenTok(GridRowDefinitions), GT>>,            \* <Grid.RowDefinitions>
      <<OpenTok(RowDefinition), SGT>>,                \* <RowDefinition/>
      <<CloseTok(GridRowDefinitions)>>,               \* </Grid.RowDefinitions>
      <<OpenTok(Grid), GT, OpenTok(Button), SGT, CloseTok(Grid)>>,
                                                      \* <Grid><Button/></Grid>
      <<WS, AttrTok("Content", "c")>>,                \*  Content="c"
      <<TextTok("t"), CloseTok(Grid), OpenTok(Button), SGT>>,
                                                      \* t</Grid><Button/>
      <<TextTok("t"), CloseTok(Grid), OpenTok(Button)>>,
                                                      \* t</Grid><Button
      <<CloseTok(Style)>>,                            \* </Style>
      <<CommentOpenTok>>,                             \* <!--
      <<CommentCloseTok>>,                            \* -->
      <<>> }                                          \* an empty line

Docs == UNION { [1..n -> LineKinds] : n \in 1..MaxLines }

vars == <<lines, lineIndex, nodes, elements, stack, pc, result, editorVars>>

\* parseAxaml has just been entered with the text of the one open document
Init ==
    /\ lines \in Docs
    /\ lineIndex = 0
    /\ nodes = <<>>
    /\ elements = <<>>
    /\ stack = <<>>
    /\ pc = "loop"
    /\ result = <<>>
    /\ docText = [d \in DocIds |-> lines]
    /\ activeEditor = 1
    /\ currentDocument = Null
    /\ currentAxamlElements = <<>>
    /\ showLineNumbers = TRUE
    /\ caller = "none"
    /\ toggle = NoToggle
    /\ arg = <<>>
    /\ out = <<>>
    /\ HostAtStart

Next == ParseStep

Spec == Init /\ [][Next]_vars

-----------------------------------------------------------------------------
(* The extension host: commands and events, each run to completion on the   *)
(* single JavaScript thread, so that a handler starts only when pc = "idle". *)
(* A handler that calls parseAxaml enters the call (pc = "loop"); the call   *)
(* runs to its return without any other handler in between (ParseAxamlCall)  *)
(* and the handler goes on with the returned forest (pc = "done").          *)

EditorLineKinds ==
    { <<OpenTok(Grid), GT>>,                          \* <Grid>
      <<WS, OpenTok(Button), SGT>> }                  \*  <Button/>

\* the synchronous call parseAxaml(text), from its entry to its return
ParseAxamlCall ==
    /\ pc = "loop"
    /\ Commit(RunLoop(Frame))
    /\ result' = Returned(RunLoop(Frame))
    /\ pc' = "done"
    /\ UNCHANGED editorVars

EditorDocs == UNION { [1..n -> EditorLineKinds] : n \in 1..MaxEditLines }

\* the handlers that answer from the cache
CacheUsers == {"navigateToElement", "showElementInfo", "onCursorPositionChanged"}

\* the user types: the document holds another text (and a new version)
Edit(d, text) ==
    /\ pc = "idle"
    /\ toggle = NoToggle
    /\ text # docText[d]
    /\ docText' = [docText EXCEPT ![d] = text]
    /\ userText' = [userText EXCEPT ![d] = text]
    /\ UNCHANGED <<hostVarsButText, callVars, parserVars, pc, result, activeEditor, currentDocument,
                   currentAxamlElements, showLineNumbers, caller, toggle>>

\* the user brings another editor to the front
SwitchEditor(d) ==
    /\ pc = "idle"
    /\ d # activeEditor
    /\ activeEditor' = d
    /\ UNCHANGED <<hostVars, callVars, parserVars, pc, result, docText, currentDocument,
                   currentAxamlElements, showLineNumbers, caller, toggle>>

\* navigateToElement, showElementInfo, onCursorPositionChanged up to the
\* use of the cache: return (with a warning, if a command) when there is no
\* active .axaml editor; `if (currentDocument !== editor.document)` parse
Request(handler) ==
    /\ pc = "idle"
    /\ IF activeEditor = Null \/ ~EndsWith(fileName[activeEditor], DotAxaml)
       THEN UNCHANGED <<parserVars, pc, caller>>
       ELSE /\ caller' = handler
            /\ IF currentDocument # activeEditor
               THEN /\ Commit(EnterCall(Frame, docText[activeEditor]))
                    /\ pc' = "loop"
               ELSE /\ pc' = "answer"
                    /\ UNCHANGED parserVars
    /\ UNCHANGED <<hostVars, callVars, result, docText, activeEditor, currentDocument,
                   currentAxamlElements, showLineNumbers, toggle>>

\* the returned roots pushed onto the array the cache already holds
CacheResultInPlace ==
    /\ pc = "done"
    /\ caller \in CacheUsers
    /\ currentAxamlElements' = currentAxamlElements \o result
    /\ currentDocument' = activeEditor
    /\ pc' = "answer"
    /\ UNCHANGED <<hostVars, callVars, parserVars, result, docText, activeEditor, showLineNumbers,
                   caller, toggle>>

\* currentAxamlElements = provider.parseAxaml(text);
\* currentDocument = editor.document
CacheResult ==
    /\ pc = "done"
    /\ caller \in CacheUsers
    /\ currentAxamlElements' = result
    /\ currentDocument' = activeEditor
    /\ pc' = "answer"
    /\ UNCHANGED <<hostVars, callVars, parserVars, result, docText, activeEditor, showLineNumbers,
                   caller, toggle>>

\* the handler reads currentAxamlElements (the flat list, or
\* findElementAtPosition) and ends
Answer ==
    /\ pc = "answer"
    /\ pc' = "idle"
    /\ caller' = "none"
    /\ UNCHANGED <<hostVars, callVars, parserVars, result, docText, activeEditor, currentDocument,
                   currentAxamlElements, showLineNumbers, toggle>>

\* provideDocumentSymbols called by the host for a document
ProvideDocumentSymbols(d) ==
    /\ pc = "idle"
    /\ Commit(EnterCall(Frame, docText[d]))
    /\ pc' = "loop"
    /\ caller' = "provideDocumentSymbols"
    /\ UNCHANGED <<hostVars, callVars, result, docText, activeEditor, currentDocument,
                   currentAxamlElements, showLineNumbers, toggle>>

\* provideDocumentSymbols returns the symbols
ProviderReturn ==
    /\ pc = "done"
    /\ caller = "provideDocumentSymbols"
    /\ pc' = "idle"
    /\ caller' = "none"
    /\ UNCHANGED <<hostVars, callVars, parserVars, result, docText, activeEditor, currentDocument,
                   currentAxamlElements, showLineNumbers, toggle>>

\* toggleLineNumbers up to the provider's parse: the flag flips, the cache
\* is cleared, the provider is called for the active document
ToggleLineNumbers ==
    /\ pc = "idle"
    /\ toggle = NoToggle
    /\ showLineNumbers' = ~showLineNumbers
    /\ currentDocument' = Null
    /\ currentAxamlElements' = <<>>
    /\ Commit(EnterCall(Frame, docText[activeEditor]))
    /\ pc' = "loop"
    /\ caller' = "toggleLineNumbers"
    /\ UNCHANGED <<hostVars, callVars, result, docText, activeEditor, toggle>>

\* the provider has returned; the command asks for its first edit and waits
ToggleAwaitEdit ==
    /\ pc = "done"
    /\ caller = "toggleLineNumbers"
    /\ toggle' = [stage |-> "insert", doc |-> activeEditor]
    /\ pc' = "idle"
    /\ caller' = "none"
    /\ UNCHANGED <<hostVars, callVars, parserVars, result, docText, activeEditor, currentDocument,
                   currentAxamlElements, showLineNumbers>>

\* editBuilder.insert(new Position(0, 0), ' ')
ToggleInsert ==
    /\ pc = "idle"
    /\ toggle.stage = "insert"
    /\ docText' = [docText EXCEPT ![toggle.doc][1] = <<WS>> \o @]
    /\ toggle' = [toggle EXCEPT !.stage = "delete"]
    /\ UNCHANGED <<hostVars, callVars, parserVars, pc, result, activeEditor, currentDocument,
                   currentAxamlElements, showLineNumbers, caller>>

\* a line without the character at column 0, whatever that character is: the
\* range (0,0)-(0,1) of an empty line is empty; a start tag without its '<'
\* is the text of its name, "/>" without its '/' is '>'.  The lines it is
\* applied to hold blanks, text, start tags and their ends.
DeleteFirstChar(line) ==
    CASE line = <<>> -> <<>>
      [] line # <<>> /\ TokLen(Head(line)) = 1 -> Tail(line)
      [] line # <<>> /\ Head(line).k = "open" /\ Len(Head(line).n) = 1 ->
            <<TextTok(Head(line).n[1])>> \o Tail(line)
      [] line # <<>> /\ Head(line).k = "sgt" -> <<GT>> \o Tail(line)
      [] line # <<>> /\ Head(line).k = "text" /\ TokLen(Head(line)) > 1 ->
            <<TextTok(SubSeq(Head(line).n[1], 2, Len(Head(line).n[1])))>>
                \o Tail(line)

\* editBuilder.delete(new Range(position, new Position(0, 1))): the first
\* character of line 0
ToggleDelete ==
    /\ pc = "idle"
    /\ toggle.stage = "delete"
    /\ docText' = [docText EXCEPT ![toggle.doc][1] = DeleteFirstChar(@)]
    /\ toggle' = NoToggle
    /\ UNCHANGED <<hostVars, callVars, parserVars, pc, result, activeEditor, currentDocument,
                   currentAxamlElements, showLineNumbers, caller>>

InitEditor ==
    /\ lines = <<>>
    /\ lineIndex = 0
    /\ nodes = <<>>
    /\ elements = <<>>
    /\ stack = <<>>
    /\ pc = "idle"
    /\ result = <<>>
    /\ docText \in [DocIds -> EditorDocs]
    /\ activeEditor \in DocIds
    /\ currentDocument = Null
    /\ currentAxamlElements = <<>>
    /\ showLineNumbers = TRUE
    /\ caller = "none"
    /\ toggle = NoToggle
    /\ arg = <<>>
    /\ out = <<>>
    /\ HostAtStart

NextEditor ==
    \/ ParseAxamlCall
    \/ \E d \in DocIds : \E text \in EditorDocs : Edit(d, text)
    \/ \E d \in DocIds : SwitchEditor(d)
    \/ \E handler \in CacheUsers : Request(handler)
    \/ CacheResult
    \/ Answer
    \/ \E d \in DocIds : ProvideDocumentSymbols(d)
    \/ ProviderReturn
    \/ ToggleLineNumbers
    \/ ToggleAwaitEdit
    \/ ToggleInsert
    \/ ToggleDelete

SpecEditor == InitEditor /\ [][NextEditor]_vars


-----------------------------------------------------------------------------
(* Reading the forest under construction *)

NodeRefs == 1..Len(nodes)

\* how often a reference occurs in a list
Count(list, ref) == Cardinality({i \in 1..Len(list) : list[i] = ref})

IsChildOf(c, p) == \E i \in 1..Len(nodes[p].children) : nodes[p].children[i] = c
IsRoot(r) == \E i \in 1..Len(elements) : elements[i] = r

RECURSIVE ReachFrom(_, _)
\* the references reachable from a set through at most n children steps
ReachFrom(S, n) ==
    IF n = 0 THEN S
    ELSE ReachFrom(S \cup {c \in NodeRefs : \E p \in S : IsChildOf(c, p)}, n - 1)

\* the proper descendants of a node
Descendants(r) ==
    ReachFrom({c \in NodeRefs : IsChildOf(c, r)}, Len(nodes))

\* the span of `inner` lies within the span of `outer`
SpanWithin(inner, outer) ==
    /\ PosLeq(outer.startLine, outer.startColumn, inner.startLine, inner.startColumn)
    /\ PosLeq(inner.endLine, inner.endColumn, outer.endLine, outer.endColumn)

-----------------------------------------------------------------------------
(* C6 - C9: what holds of every forest parseAxaml builds *)

ExclusionList ==
    { <<"RowDefinitions">>, <<"ColumnDefinitions">>, <<"RowDefinition">>,
      <<"ColumnDefinition">>, <<"Resources">>, <<"Styles">>, <<"Style">>,
      <<"Setter">>, <<"Triggers">>, <<"DataTemplates">>, <<"ControlThemes">> }

\* the name of the first start tag of a line, <<>> if it has none
FirstTagOf(line) ==
    IF TagMatch(line) = 0 THEN <<>> ELSE line[TagMatch(line)].n

\* a line whose first start tag is a property element or a definition tag
IsFilteredLine(line) ==
    Len(FirstTagOf(line)) > 1 \/ FirstTagOf(line) \in ExclusionList

\* C6: no node carries a tag name of the exclusion list or one containing a
\* '.', and no node starts on a line whose tag is filtered (so a
\* <Grid.RowDefinitions> block with its <RowDefinition/> entries contributes
\* no node), at every step of the parse and in the returned forest.
C6_NoDefinitionTags ==
    \A r \in NodeRefs :
        /\ nodes[r].tagName \notin ExclusionList
        /\ Len(nodes[r].tagName) = 1
        /\ ~IsFilteredLine(lines[nodes[r].startLine + 1])

\* C6 witness: a returned forest with one node, from a text that holds a
\* property element line and a definition tag line behind that node's tag.
C6_Witness ==
    /\ pc = "done"
    /\ Len(nodes) = 1
    /\ \E i, j \in 1..Len(lines) :
          /\ nodes[1].endLine + 1 < i
          /\ Len(FirstTagOf(lines[i])) > 1
          /\ nodes[1].endLine + 1 < j
          /\ FirstTagOf(lines[j]) \in ExclusionList

\* C7: an element classified as self-closing is never on the open-element
\* stack and has no children, at every step and in the returned forest.
C7_SelfClosingLeaf ==
    \A r \in NodeRefs :
        nodes[r].isSelfClosing =>
            /\ Count(stack, r) = 0
            /\ nodes[r].children = <<>>

\* C7 witness: a self-closing element was created under an open element and
\* another element was created after it.
C7_Witness ==
    /\ pc = "done"
    /\ \E r \in NodeRefs :
          /\ nodes[r].isSelfClosing
          /\ ~IsRoot(r)
          /\ r < Len(nodes)

\* C8: the roots and their descendants form a forest: every created element
\* occurs exactly once in the root list and the children lists together, is
\* reachable from exactly one root, and is not its own descendant.
C8_Forest ==
    \A r \in NodeRefs :
        /\ Count(elements, r)
             + Cardinality({<<p, i>> \in NodeRefs \X (1..Len(nodes)) :
                              /\ i <= Len(nodes[p].children)
                              /\ nodes[p].children[i] = r}) = 1
        /\ Cardinality({root \in NodeRefs :
                          IsRoot(root) /\ r \in {root} \cup Descendants(root)}) = 1
        /\ r \notin Descendants(r)

\* C8 witness: the returned forest has a root with a child with a child.
C8_Witness ==
    /\ pc = "done"
    /\ \E a, b, c \in NodeRefs : IsRoot(a) /\ IsChildOf(b, a) /\ IsChildOf(c, b)

\* C9: the end of every node's span is lexicographically at or after its
\* start, when the node is created and at every later step.
C9_EndNotBeforeStart ==
    \A r \in NodeRefs :
        PosLeq(nodes[r].startLine, nodes[r].startColumn,
               nodes[r].endLine, nodes[r].endColumn)

\* C9 witness: the returned forest holds an indented one-line element and an
\* element whose tag ends on a later line than it starts.
C9_Witness ==
    /\ pc = "done"
    /\ \E r \in NodeRefs :
          nodes[r].startColumn > 0 /\ nodes[r].endLine = nodes[r].startLine
    /\ \E r \in NodeRefs : nodes[r].endLine > nodes[r].startLine

-----------------------------------------------------------------------------
(* C1: the nesting a well-formed text with one tag per line describes *)

IsAttrText(t, from, to) == \A i \in from..to : t[i].k \in {"ws", "attr"}

\* what a trimmed line holds, "other" when it is not a single tag or a
\* single piece of one
LineClass(t) ==
    CASE t = <<>> -> "blank"
      [] t # <<>> /\ CloseTagMatch(t) -> "close"
      [] Len(t) >= 2 /\ t[1].k = "open" /\ t[Len(t)].k = "gt"
            /\ IsAttrText(t, 2, Len(t) - 1) -> "open"
      [] Len(t) >= 2 /\ t[1].k = "open" /\ t[Len(t)].k = "sgt"
            /\ IsAttrText(t, 2, Len(t) - 1) -> "self"
      [] t # <<>> /\ t[1].k = "open" /\ IsAttrText(t, 2, Len(t)) -> "start"
      [] t # <<>> /\ t[1].k # "open" /\ t[Len(t)].k = "gt"
            /\ IsAttrText(t, 1, Len(t) - 1) -> "endopen"
      [] t # <<>> /\ t[1].k # "open" /\ t[Len(t)].k = "sgt"
            /\ IsAttrText(t, 1, Len(t) - 1) -> "endself"
      [] t # <<>> /\ IsAttrText(t, 1, Len(t)) -> "cont"
      [] OTHER -> "other"

Survives(name) == Len(name) = 1 /\ name \notin ExclusionList

\* the start line of the nearest open surviving element, -1 if there is none
RECURSIVE NearestOpen(_)
NearestOpen(open) ==
    IF open = <<>> THEN -1
    ELSE IF Survives(open[Len(open)].name) THEN open[Len(open)].line
    ELSE NearestOpen(SubSeq(open, 1, Len(open) - 1))

\* an element whose start tag is complete: its parent is recorded if it
\* survives, and it is opened unless self-closing
RefElement(st, tag, selfClosing) ==
    [st EXCEPT
        !.pending = <<>>,
        !.parent = IF Survives(tag.name)
                   THEN @ \cup {<<tag.line, NearestOpen(st.open)>>}
                   ELSE @,
        !.open = IF selfClosing THEN @ ELSE Append(@, tag)]

RECURSIVE RefScan(_, _, _)
\* reads the lines from line i (0-based) on; st.open are the tags opened and
\* not yet closed, st.pending the start tag still waiting for its '>'
RefScan(ls, i, st) ==
    IF i >= Len(ls)
    THEN [st EXCEPT !.ok = @ /\ st.open = <<>> /\ st.pending = <<>>]
    ELSE LET t == Trim(ls[i + 1])
             class == LineClass(t)
             tag == [name |-> t[1].n, line |-> i]
             bad == [st EXCEPT !.ok = FALSE]
         IN CASE class = "blank" -> RefScan(ls, i + 1, st)
              [] class = "other" -> bad
              [] class \in {"open", "self", "start"} ->
                    IF st.pending # <<>> THEN bad
                    ELSE IF class = "start"
                         THEN RefScan(ls, i + 1, [st EXCEPT !.pending = <<tag>>])
                         ELSE RefScan(ls, i + 1, RefElement(st, tag, class = "self"))
              [] class \in {"endopen", "endself", "cont"} ->
                    IF st.pending = <<>> THEN bad
                    ELSE IF class = "cont" THEN RefScan(ls, i + 1, st)
                         ELSE RefScan(ls, i + 1,
                                  RefElement(st, st.pending[1], class = "endself"))
              [] class = "close" ->
                    IF \/ st.pending # <<>>
                       \/ st.open = <<>>
                       \/ st.open[Len(st.open)].name # t[1].n
                    THEN bad
                    ELSE RefScan(ls, i + 1,
                             [st EXCEPT !.open = SubSeq(@, 1, Len(@) - 1)])

\* ok: the text is well formed with at most one tag per line;
\* parent: <<start line, start line of the parent or -1>> per surviving element
Reference(ls) ==
    RefScan(ls, 0, [open |-> <<>>, pending |-> <<>>, parent |-> {}, ok |-> TRUE])

\* the start lines of the parents a node has in the forest, -1 for the root list
ParentLines(r) ==
    {nodes[p].startLine : p \in {q \in NodeRefs : IsChildOf(r, q)}}
        \cup (IF IsRoot(r) THEN {-1} ELSE {})

\* C1 (as claimed): in the forest returned for a well-formed text with at
\* most one tag per line, the parent of every element is the nearest
\* preceding surviving element that is open (not self-closing, its closing
\* tag not yet read), and an element read when none is open is a root.
C1_ParentIsNearestOpen ==
    (pc = "done" /\ Reference(lines).ok) =>
        \A r \in NodeRefs :
            \A q \in ParentLines(r) :
                <<nodes[r].startLine, q>> \in Reference(lines).parent

-----------------------------------------------------------------------------
(* C2, C3, C5: the returned forest *)

RECURSIVE AllNodes(_)
\* every node of a forest value
AllNodes(forest) ==
    UNION { {forest[i]} \cup AllNodes(forest[i].children) : i \in 1..Len(forest) }

\* C2 (as claimed): in the returned forest the span of every child lies
\* within the span of its parent.
C2_ChildSpanWithinParent ==
    pc = "done" =>
        \A p \in AllNodes(result) :
            \A i \in 1..Len(p.children) : SpanWithin(p.children[i], p)

\* the positions of a text: a line and a column up to the line's length
Positions(ls) ==
    UNION { {<<l, c>> : c \in 0..StrLength(ls[l + 1])} : l \in 0..(Len(ls) - 1) }

\* C3 (as claimed): for every position, findElementAtPosition returns a node
\* that contains it and has no descendant containing it, and returns null
\* only if no node of the forest contains it.
C3_FindsDeepestContaining ==
    pc = "done" =>
        \A pos \in Positions(lines) :
            LET found == findElementAtPosition(result, pos[1], pos[2])
            IN IF found = <<>>
               THEN \A n \in AllNodes(result) : ~RangeContains(n, pos[1], pos[2])
               ELSE /\ RangeContains(found[1], pos[1], pos[2])
                    /\ \A d \in AllNodes(found[1].children) :
                          ~RangeContains(d, pos[1], pos[2])

\* the start tags (self-closing ones included) written in a text
StartTagCount(ls) ==
    Cardinality({<<l, i>> \in (1..Len(ls)) \X (1..8) :
                    i <= Len(ls[l]) /\ ls[l][i].k = "open"})

NoFilteredTag(ls) ==
    \A l \in 1..Len(ls) : \A i \in 1..Len(ls[l]) :
        ls[l][i].k = "open" => Survives(ls[l][i].n)

\* C5 (as claimed): for a text without excluded or property-element tags the
\* forest has as many nodes as the text has start and self-closing tags,
\* also when several tags share a line.
C5_NodeCountIsTagCount ==
    (pc = "done" /\ NoFilteredTag(lines)) =>
        Cardinality(AllNodes(result)) = StartTagCount(lines)

-----------------------------------------------------------------------------
(* C4, C10: the cache and the calls of parseAxaml in the extension host *)

\* C4 (as claimed): whenever a navigate, element-info or cursor-move request
\* reads the cache, the cached forest is parseAxaml of the text the active
\* document holds at that moment.
C4_CacheIsCurrent ==
    pc = "answer" => currentAxamlElements = ParseAxaml(docText[activeEditor])

-----------------------------------------------------------------------------
(* The two label computations called on their own: the arguments are a tag   *)
(* name and the attribute text written behind it in the start tag.           *)

\* getCleanElementDisplayName with the Button branch reading Text, the
\* attribute of the TextBlock branch
getCleanElementDisplayNameButtonText(element) ==
    LET attributes == element.attributes
    IN IF Truthy(attributes, "x:Name") THEN <<MapGet(attributes, "x:Name")>>
       ELSE IF Truthy(attributes, "Name") THEN <<MapGet(attributes, "Name")>>
       ELSE IF element.tagName = <<"Button">>
            THEN IF Truthy(attributes, "Text")
                 THEN <<"[Button \"", MapGet(attributes, "Text"), "\"]">>
                 ELSE <<"[">> \o JoinName(element.tagName) \o <<"]">>
       ELSE IF element.tagName = <<"TextBlock">>
            THEN IF Truthy(attributes, "Text")
                 THEN <<"[TextBlock \"", MapGet(attributes, "Text"), "\"]">>
                 ELSE <<"[">> \o JoinName(element.tagName) \o <<"]">>
       ELSE <<"[">> \o JoinName(element.tagName) \o <<"]">>

\* the label of an outline symbol, from the attribute map the element keeps
getCleanElementDisplayName(element) ==
    LET attributes == element.attributes
    IN IF Truthy(attributes, "x:Name") THEN <<MapGet(attributes, "x:Name")>>
       ELSE IF Truthy(attributes, "Name") THEN <<MapGet(attributes, "Name")>>
       ELSE IF element.tagName = <<"Button">>
            THEN IF Truthy(attributes, "Content")
                 THEN <<"[Button \"", MapGet(attributes, "Content"), "\"]">>
                 ELSE <<"[">> \o JoinName(element.tagName) \o <<"]">>
       ELSE IF element.tagName = <<"TextBlock">>
            THEN IF Truthy(attributes, "Text")
                 THEN <<"[TextBlock \"", MapGet(attributes, "Text"), "\"]">>
                 ELSE <<"[">> \o JoinName(element.tagName) \o <<"]">>
       ELSE <<"[">> \o JoinName(element.tagName) \o <<"]">>

\* an attribute that is not written, written with an empty value, or written
\* with a value of its own
AttrChoices(key, value) == { <<>>, <<WS, AttrTok(key, "")>>, <<WS, AttrTok(key, value)>> }

\* the attribute texts: Content, Text, Name and x:Name in the order of the
\* sample document (the name behind the content)
LabelAttributeStrs ==
    { Trim(c \o t \o n \o x) :
        c \in AttrChoices("Content", "c"), t \in AttrChoices("Text", "t"),
        n \in AttrChoices("Name", "n"), x \in AttrChoices("x:Name", "xn") }

LabelTagNames == { <<"Button">>, <<"TextBlock">>, <<"Grid">> }

LabelArgs ==
    [tagName : LabelTagNames, attributesStr : LabelAttributeStrs]

\* this.getElementDisplayName(tagName, attributesStr)
GetElementDisplayNameCall ==
    /\ pc = "call"
    /\ out' = getElementDisplayName(arg.tagName, arg.attributesStr)
    /\ pc' = "done"
    /\ caller' = "getElementDisplayName"
    /\ UNCHANGED <<parserVars, result, docText, activeEditor, currentDocument,
                   currentAxamlElements, showLineNumbers, toggle, arg, hostVars>>

\* this.getCleanElementDisplayName(element), for an element that keeps the
\* map parseAttributes returned (extension.ts:716)
GetCleanElementDisplayNameCall ==
    /\ pc = "call"
    /\ out' = getCleanElementDisplayName(
                  [tagName |-> arg.tagName,
                   attributes |-> parseAttributes(arg.attributesStr)])
    /\ pc' = "done"
    /\ caller' = "getCleanElementDisplayName"
    /\ UNCHANGED <<parserVars, result, docText, activeEditor, currentDocument,
                   currentAxamlElements, showLineNumbers, toggle, arg, hostVars>>

InitLabel ==
    /\ lines = <<>>
    /\ lineIndex = 0
    /\ nodes = <<>>
    /\ elements = <<>>
    /\ stack = <<>>
    /\ pc = "call"
    /\ result = <<>>
    /\ docText = [d \in DocIds |-> <<>>]
    /\ activeEditor = 1
    /\ currentDocument = Null
    /\ currentAxamlElements = <<>>
    /\ showLineNumbers = TRUE
    /\ caller = "none"
    /\ toggle = NoToggle
    /\ arg \in LabelArgs
    /\ out = <<>>
    /\ HostAtStart

NextLabel ==
    \/ GetElementDisplayNameCall
    \/ GetCleanElementDisplayNameCall

SpecLabel == InitLabel /\ [][NextLabel]_vars

-----------------------------------------------------------------------------
(* C11, C12: the label of an element *)

\* the attribute map written in the arguments
ArgAttributes == parseAttributes(arg.attributesStr)

\* the attribute is written in the start tag, with whatever value
Present(key) == MapHas(ArgAttributes, key)

\* the attribute is written with a value that is not the empty string
PresentNonEmpty(key) == Present(key) /\ MapGet(ArgAttributes, key) # ""

LabelReturned == pc = "done" /\ caller \in {"getElementDisplayName", "getCleanElementDisplayName"}

Unnamed == ~Present("x:Name") /\ ~Present("Name")

\* `[<tagName> "<value>"]` and `[<tagName>]`
QuotedLabel(tagName, value) ==
    IF tagName = <<"Button">> THEN <<"[Button \"", value, "\"]">>
    ELSE <<"[TextBlock \"", value, "\"]">>
BracketLabel(tagName) == <<"[">> \o JoinName(tagName) \o <<"]">>

-----------------------------------------------------------------------------
(* getSymbolKind: strings as sequences of characters *)

UpperCaseLetters ==
    <<"A", "B", "C", "D", "E", "F", "G", "H", "I", "J", "K", "L", "M",
      "N", "O", "P", "Q", "R", "S", "T", "U", "V", "W", "X", "Y", "Z">>
LowerCaseLetters ==
    <<"a", "b", "c", "d", "e", "f", "g", "h", "i", "j", "k", "l", "m",
      "n", "o", "p", "q", "r", "s", "t", "u", "v", "w", "x", "y", "z">>

\* String.prototype.toLowerCase
ToLowerCase(str) ==
    [i \in 1..Len(str) |->
        IF \E j \in 1..26 : UpperCaseLetters[j] = str[i]
        THEN LowerCaseLetters[CHOOSE j \in 1..26 : UpperCaseLetters[j] = str[i]]
        ELSE str[i]]

\* String.prototype.includes: a case-sensitive substring test
Includes(str, sub) ==
    \E i \in 1..(Len(str) - Len(sub) + 1) : SubSeq(str, i, i + Len(sub) - 1) = sub

\* the `if` statements of getSymbolKind, in their order, each with the
\* arguments of its includes calls as they are written
KindRules ==
    <<
       [kind |-> "Class",
        keywords |-> <<<<"w", "i", "n", "d", "o", "w">>, <<"u", "s", "e", "r", "c", "o", "n", "t", "r", "o", "l">>>>],
       [kind |-> "Package",
        keywords |-> <<<<"g", "r", "i", "d">>, <<"s", "t", "a", "c", "k", "p", "a", "n", "e", "l">>, <<"c", "a", "n", "v", "a", "s">>, <<"d", "o", "c", "k", "p", "a", "n", "e", "l">>, <<"w", "r", "a", "p", "p", "a", "n", "e", "l">>, <<"b", "o", "r", "d", "e", "r">>>>],
       [kind |-> "Function",
        keywords |-> <<<<"b", "u", "t", "t", "o", "n">>, <<"c", "h", "e", "c", "k", "b", "o", "x">>, <<"r", "a", "d", "i", "o", "b", "u", "t", "t", "o", "n">>, <<"s", "l", "i", "d", "e", "r">>>>],
       [kind |-> "String",
        keywords |-> <<<<"t", "e", "x", "t", "b", "l", "o", "c", "k">>, <<"t", "e", "x", "t", "b", "o", "x">>, <<"l", "a", "b", "e", "l">>>>],
       [kind |-> "Array",
        keywords |-> <<<<"l", "i", "s", "t", "b", "o", "x">>, <<"c", "o", "m", "b", "o", "b", "o", "x">>, <<"d", "a", "t", "a", "g", "r", "i", "d">>, <<"t", "r", "e", "e", "v", "i", "e", "w">>>>],
       [kind |-> "File",
        keywords |-> <<<<"i", "m", "a", "g", "e">>, <<"m", "e", "d", "i", "a", "E", "l", "e", "m", "e", "n", "t">>>>]
    >>

\* the kind of the first rule with a keyword in the lower-cased tag name,
\* SymbolKind.Object when there is none
getSymbolKind(tagName) ==
    LET lowerTagName == ToLowerCase(tagName)
        Matches(r) ==
            \E k \in 1..Len(KindRules[r].keywords) :
                Includes(lowerTagName, KindRules[r].keywords[k])
    IN IF \E r \in 1..Len(KindRules) : Matches(r)
       THEN KindRules[CHOOSE r \in 1..Len(KindRules) :
                         Matches(r) /\ \A q \in 1..(r - 1) : ~Matches(q)].kind
       ELSE "Object"

\* the characters of the tag names the model writes
Spell(str) ==
    CASE str = "Window" -> <<"W", "i", "n", "d", "o", "w">>
      [] str = "UserControl" -> <<"U", "s", "e", "r", "C", "o", "n", "t", "r", "o", "l">>
      [] str = "Grid" -> <<"G", "r", "i", "d">>
      [] str = "StackPanel" -> <<"S", "t", "a", "c", "k", "P", "a", "n", "e", "l">>
      [] str = "Canvas" -> <<"C", "a", "n", "v", "a", "s">>
      [] str = "DockPanel" -> <<"D", "o", "c", "k", "P", "a", "n", "e", "l">>
      [] str = "WrapPanel" -> <<"W", "r", "a", "p", "P", "a", "n", "e", "l">>
      [] str = "Border" -> <<"B", "o", "r", "d", "e", "r">>
      [] str = "Button" -> <<"B", "u", "t", "t", "o", "n">>
      [] str = "CheckBox" -> <<"C", "h", "e", "c", "k", "B", "o", "x">>
      [] str = "RadioButton" -> <<"R", "a", "d", "i", "o", "B", "u", "t", "t", "o", "n">>
      [] str = "Slider" -> <<"S", "l", "i", "d", "e", "r">>
      [] str = "TextBlock" -> <<"T", "e", "x", "t", "B", "l", "o", "c", "k">>
      [] str = "TextBox" -> <<"T", "e", "x", "t", "B", "o", "x">>
      [] str = "Label" -> <<"L", "a", "b", "e", "l">>
      [] str = "ListBox" -> <<"L", "i", "s", "t", "B", "o", "x">>
      [] str = "ComboBox" -> <<"C", "o", "m", "b", "o", "B", "o", "x">>
      [] str = "DataGrid" -> <<"D", "a", "t", "a", "G", "r", "i", "d">>
      [] str = "TreeView" -> <<"T", "r", "e", "e", "V", "i", "e", "w">>
      [] str = "Image" -> <<"I", "m", "a", "g", "e">>
      [] str = "MediaElement" -> <<"M", "e", "d", "i", "a", "E", "l", "e", "m", "e", "n", "t">>
      [] str = "Ellipse" -> <<"E", "l", "l", "i", "p", "s", "e">>
      [] str = "TabControl" -> <<"T", "a", "b", "C", "o", "n", "t", "r", "o", "l">>
      [] str = "Path" -> <<"P", "a", "t", "h">>

\* the element types the README lists, and three it does not
DocumentedTypes ==
    {"Window", "UserControl", "Grid", "StackPanel", "Canvas", "DockPanel",
     "WrapPanel", "Border", "Button", "CheckBox", "RadioButton", "Slider",
     "TextBlock", "TextBox", "Label", "ListBox", "ComboBox", "DataGrid",
     "TreeView", "Image", "MediaElement"}
OtherTypes == {"Ellipse", "TabControl", "Path"}

\* String.prototype.toUpperCase, to write a name in capitals
ToUpperCase(str) ==
    [i \in 1..Len(str) |->
        IF \E j \in 1..26 : LowerCaseLetters[j] = str[i]
        THEN UpperCaseLetters[CHOOSE j \in 1..26 : LowerCaseLetters[j] = str[i]]
        ELSE str[i]]

\* every type as written, in small letters and in capitals
KindArgs ==
    UNION { {[tagName |-> Spell(n)],
             [tagName |-> ToLowerCase(Spell(n))],
             [tagName |-> ToUpperCase(Spell(n))]} :
            n \in DocumentedTypes \cup OtherTypes }

\* this.getSymbolKind(tagName)
GetSymbolKindCall ==
    /\ pc = "call"
    /\ out' = getSymbolKind(arg.tagName)
    /\ pc' = "done"
    /\ caller' = "getSymbolKind"
    /\ UNCHANGED <<parserVars, result, docText, activeEditor, currentDocument,
                   currentAxamlElements, showLineNumbers, toggle, arg, hostVars>>

InitKind ==
    /\ lines = <<>>
    /\ lineIndex = 0
    /\ nodes = <<>>
    /\ elements = <<>>
    /\ stack = <<>>
    /\ pc = "call"
    /\ result = <<>>
    /\ docText = [d \in DocIds |-> <<>>]
    /\ activeEditor = 1
    /\ currentDocument = Null
    /\ currentAxamlElements = <<>>
    /\ showLineNumbers = TRUE
    /\ caller = "none"
    /\ toggle = NoToggle
    /\ arg \in KindArgs
    /\ out = <<>>
    /\ HostAtStart

NextKind == GetSymbolKindCall

SpecKind == InitKind /\ [][NextKind]_vars

-----------------------------------------------------------------------------
(* C13, C14: the category of an element type *)

\* the category the README gives each element type
DocumentedKind(n) ==
    CASE n \in {"Window", "UserControl"} -> "Class"
      [] n \in {"Grid", "StackPanel", "Canvas", "DockPanel", "WrapPanel",
                "Border"} -> "Package"
      [] n \in {"Button", "CheckBox", "RadioButton", "Slider"} -> "Function"
      [] n \in {"TextBlock", "TextBox", "Label"} -> "String"
      [] n \in {"ListBox", "ComboBox", "DataGrid", "TreeView"} -> "Array"
      [] n \in {"Image", "MediaElement"} -> "File"

\* C13 (as claimed): every documented element type gets its documented
\* category.
C13_DocumentedKind ==
    (pc = "done" /\ caller = "getSymbolKind") =>
        \A n \in DocumentedTypes :
            arg.tagName = Spell(n) => out = DocumentedKind(n)

\* the rule table of the claim: the keywords of each category, compared
\* without regard to letter case
ClaimedKeywords ==
    [r \in 1..Len(KindRules) |->
        [k \in 1..Len(KindRules[r].keywords) |->
            ToLowerCase(KindRules[r].keywords[k])]]

ClaimedMatch(tagName, r) ==
    \E k \in 1..Len(ClaimedKeywords[r]) :
        Includes(ToLowerCase(tagName), ClaimedKeywords[r][k])

ClaimedKind(tagName) ==
    IF \E r \in 1..Len(KindRules) : ClaimedMatch(tagName, r)
    THEN KindRules[CHOOSE r \in 1..Len(KindRules) :
                      ClaimedMatch(tagName, r)
                      /\ \A q \in 1..(r - 1) : ~ClaimedMatch(tagName, q)].kind
    ELSE "Object"

\* C14 (as claimed): the category is that of the first rule, in the order
\* class, package, function, string, array, file, one of whose keywords is
\* a case-insensitive substring of the tag name, the object category when
\* there is none; names that differ only in letter case get the same one.
C14_FirstRuleCaseInsensitive ==
    (pc = "done" /\ caller = "getSymbolKind") =>
        /\ out = ClaimedKind(arg.tagName)
        /\ \A other \in KindArgs :
              ToLowerCase(other.tagName) = ToLowerCase(arg.tagName)
                  => getSymbolKind(other.tagName) = out

-----------------------------------------------------------------------------
(* convertToDocumentSymbols: the outline symbols of a forest *)

Position(line, character) == [line |-> line, character |-> character]

\* new vscode.Range(a, b): the constructor puts the smaller position first
Range(a, b) ==
    IF PosLeq(a.line, a.character, b.line, b.character)
    THEN [start |-> a, end |-> b]
    ELSE [start |-> b, end |-> a]

\* range.contains(other), for a range
RangeContainsRange(range, other) ==
    /\ PosLeq(range.start.line, range.start.character,
              other.start.line, other.start.character)
    /\ PosLeq(other.end.line, other.end.character,
              range.end.line, range.end.character)

\* the characters of a tag name, its segments joined by '.'
RECURSIVE SpellName(_)
SpellName(tagName) ==
    IF Len(tagName) = 1 THEN Spell(tagName[1])
    ELSE Spell(Head(tagName)) \o <<".">> \o SpellName(Tail(tagName))

\* the detail with the 0-based line index
DetailZeroBased(element, flag) ==
    IF flag
    THEN JoinName(element.tagName) \o <<" (Line ", element.startLine, ")">>
    ELSE JoinName(element.tagName)

\* let detail = element.tagName; if (showLineNumbers) detail =
\* `${element.tagName} (Line ${element.startLine + 1})`
Detail(element, flag) ==
    IF flag
    THEN JoinName(element.tagName) \o <<" (Line ", element.startLine + 1, ")">>
    ELSE JoinName(element.tagName)

\* the name with the line number in it when the flag is on
SymbolNameWithLine(element, flag) ==
    IF flag
    THEN getCleanElementDisplayName(element) \o <<" (Line ", element.startLine + 1, ")">>
    ELSE getCleanElementDisplayName(element)

\* cleanName, the first argument of new vscode.DocumentSymbol
SymbolName(element, flag) == getCleanElementDisplayName(element)

\* the results placed last to first
MapOrderReversed(n) == [i \in 1..n |-> n + 1 - i]

\* Array.prototype.map: the i-th result is made of the i-th entry
MapOrder(n) == [i \in 1..n |-> i]

RECURSIVE createDocumentSymbol(_, _)
\* the DocumentSymbol made of an element under a value of showLineNumbers
createDocumentSymbol(element, flag) ==
    LET range == Range(Position(element.startLine, element.startColumn),
                       Position(element.endLine, element.endColumn))
        selectionRange ==
            Range(Position(element.startLine, element.startColumn),
                  Position(element.startLine,
                           element.startColumn + NameLength(element.tagName) + 1))
        children ==
            [i \in 1..Len(element.children) |->
                createDocumentSymbol(
                    element.children[MapOrder(Len(element.children))[i]], flag)]
    IN [name |-> SymbolName(element, flag),
        detail |-> Detail(element, flag),
        kind |-> getSymbolKind(SpellName(element.tagName)),
        range |-> range,
        selectionRange |-> selectionRange,
        children |-> children]

\* elements.map(element => this.createDocumentSymbol(element, document))
convertToDocumentSymbols(forest, flag) ==
    [i \in 1..Len(forest) |->
        createDocumentSymbol(forest[MapOrder(Len(forest))[i]], flag)]

RECURSIVE SymbolThrows(_)
\* new vscode.DocumentSymbol(...) throws for a name that is empty and for a
\* selection range that the full range does not contain; a throw in the
\* conversion of a child ends the conversion of its parent
SymbolThrows(symbol) ==
    \/ \A i \in 1..Len(symbol.name) : symbol.name[i] = ""
    \/ ~RangeContainsRange(symbol.range, symbol.selectionRange)
    \/ \E i \in 1..Len(symbol.children) : SymbolThrows(symbol.children[i])

\* the conversion of the forest ends with an exception
ConvertThrows(forest, flag) ==
    \E i \in 1..Len(forest) : SymbolThrows(createDocumentSymbol(forest[i], flag))

-----------------------------------------------------------------------------
(* The pick list of the navigate command *)

RECURSIVE addElementsToListChildrenFirst(_)
\* the list with every element behind its children
addElementsToListChildrenFirst(forest) ==
    IF forest = <<>> THEN <<>>
    ELSE addElementsToListChildrenFirst(Head(forest).children)
            \o <<Head(forest)>> \o addElementsToListChildrenFirst(Tail(forest))

RECURSIVE addElementsToList(_)
\* for (const element of elements) { flatElements.push(element);
\* addElementsToList(element.children) }: what the call appends
addElementsToList(forest) ==
    IF forest = <<>> THEN <<>>
    ELSE <<Head(forest)>> \o addElementsToList(Head(forest).children)
            \o addElementsToList(Tail(forest))

\* flatElements.map(element => ({label, description, detail, element}))
QuickPickItems(flatElements) ==
    [i \in 1..Len(flatElements) |->
        [label |-> flatElements[i].name,
         description |-> JoinName(flatElements[i].tagName),
         detail |-> <<"Line ", flatElements[i].startLine + 1>>,
         element |-> flatElements[i]]]

-----------------------------------------------------------------------------
(* provideDocumentSymbols and the handlers that call it, with documents of   *)
(* any file name and language, a host that may pass a cancelled token, and   *)
(* possibly no active editor (activeEditor = Null).                          *)

ProviderCallers ==
    {"provideDocumentSymbols", "activate", "forceReload", "toggleLineNumbers",
     "refreshTimer"}

AvaloniaXmlns == AttrTok("xmlns", "https://github.com/avaloniaui")

\* document.getText().includes('xmlns="https://github.com/avaloniaui"')
IncludesXmlns(text) ==
    \E l \in 1..Len(text) : \E i \in 1..Len(text[l]) : text[l][i] = AvaloniaXmlns

\* the detection that takes every XML document for an AXAML file
isAxamlFileOrXml(d) ==
    \/ EndsWith(ToLowerCase(fileName[d]), DotAxaml)
    \/ languageId[d] \in {"axaml", "xml"}
    \/ IncludesXmlns(docText[d])

\* const isAxamlFile = ...
isAxamlFile(d) ==
    \/ EndsWith(ToLowerCase(fileName[d]), DotAxaml)
    \/ languageId[d] = "axaml"
    \/ IncludesXmlns(docText[d])

\* provider.provideDocumentSymbols(document, token) is entered
CallProvider(who, document, isCancellationRequested) ==
    /\ arg' = [document |-> document,
               isCancellationRequested |-> isCancellationRequested]
    /\ caller' = who
    /\ pc' = "provide"
    /\ errorMessages' = 0
    /\ exception' = "none"

\* the host asks for the outline of a document, with a token that may
\* already be cancelled
HostProvide(d, isCancellationRequested) ==
    /\ pc = "idle"
    /\ CallProvider("provideDocumentSymbols", d, isCancellationRequested)
    /\ UNCHANGED <<parserVars, result, docText, activeEditor, currentDocument,
                   currentAxamlElements, showLineNumbers, toggle, out,
                   fileName, languageId, earlier, quickPick,
                   cursorTimers, selection, warningMessages,
                   userText>>

\* the timers set on activation and on a change of the active editor, for an
\* editor whose file name ends with '.axaml': the provider is called with a
\* new token
DelayedRefresh(d) ==
    /\ pc = "idle"
    /\ EndsWith(fileName[d], DotAxaml)
    /\ CallProvider("refreshTimer", d, FALSE)
    /\ UNCHANGED <<parserVars, result, docText, activeEditor, currentDocument,
                   currentAxamlElements, showLineNumbers, toggle, out,
                   fileName, languageId, earlier, quickPick,
                   cursorTimers, selection, warningMessages,
                   userText>>

\* axaml-outline.activate: the provider is called when there is an active
\* editor on an .axaml file
ActivateCommand ==
    /\ pc = "idle"
    /\ IF activeEditor # Null /\ EndsWith(fileName[activeEditor], DotAxaml)
       THEN CallProvider("activate", activeEditor, FALSE)
       ELSE UNCHANGED <<arg, caller, pc, errorMessages, exception>>
    /\ UNCHANGED <<parserVars, result, docText, activeEditor, currentDocument,
                   currentAxamlElements, showLineNumbers, toggle, out,
                   fileName, languageId, earlier, quickPick,
                   cursorTimers, selection, warningMessages,
                   userText>>

\* axaml-outline.forceReload: the provider is called with
\* vscode.window.activeTextEditor?.document!, undefined when no editor is
\* active
ForceReloadCommand ==
    /\ pc = "idle"
    /\ CallProvider("forceReload", activeEditor, FALSE)
    /\ UNCHANGED <<parserVars, result, docText, activeEditor, currentDocument,
                   currentAxamlElements, showLineNumbers, toggle, out,
                   fileName, languageId, earlier, quickPick,
                   cursorTimers, selection, warningMessages,
                   userText>>

\* axaml-outline.toggleLineNumbers up to the call of the provider
ToggleLineNumbersCommand ==
    /\ pc = "idle"
    /\ toggle = NoToggle
    /\ showLineNumbers' = ~showLineNumbers
    /\ IF activeEditor # Null /\ EndsWith(fileName[activeEditor], DotAxaml)
       THEN /\ currentDocument' = Null
            /\ currentAxamlElements' = <<>>
            /\ CallProvider("toggleLineNumbers", activeEditor, FALSE)
       ELSE UNCHANGED <<currentDocument, currentAxamlElements, arg, caller, pc,
                        errorMessages, exception>>
    /\ UNCHANGED <<parserVars, result, docText, activeEditor, toggle, out,
                   fileName, languageId, earlier, quickPick,
                   cursorTimers, selection, warningMessages,
                   userText>>

\* `return symbols` / `return []`
ProviderReturns(symbols) ==
    /\ out' = symbols
    /\ earlier' = out
    /\ pc' = "provided"

\* the host cancels the token it passed once the call is past its entry,
\* where the provider has read token.isCancellationRequested (601)
CancelToken ==
    /\ pc = "loop"
    /\ caller = "provideDocumentSymbols"
    /\ ~arg.isCancellationRequested
    /\ arg' = [arg EXCEPT !.isCancellationRequested = TRUE]
    /\ UNCHANGED <<parserVars, pc, result, docText, activeEditor,
                   currentDocument, currentAxamlElements, showLineNumbers,
                   caller, toggle, out, hostVars>>

\* the entry that does not test the token
ProvideDocumentSymbolsEntryIgnoringToken ==
    /\ pc = "provide"
    /\ IF arg.document = Null
       THEN /\ exception' = "TypeError"
            /\ pc' = "thrown"
            /\ UNCHANGED <<parserVars, out, earlier>>
       ELSE IF ~isAxamlFile(arg.document)
       THEN /\ ProviderReturns(<<>>)
            /\ UNCHANGED <<parserVars, exception>>
       ELSE /\ Commit(EnterCall(Frame, docText[arg.document]))
            /\ pc' = "loop"
            /\ UNCHANGED <<out, earlier, exception>>
    /\ UNCHANGED <<result, docText, activeEditor, currentDocument,
                   currentAxamlElements, showLineNumbers, caller, toggle, arg,
                   fileName, languageId, errorMessages, quickPick,
                   cursorTimers, selection, warningMessages,
                   userText>>

\* provideDocumentSymbols from its first line to the call of parseAxaml:
\* the log lines read document.fileName, then the token is tested, then the
\* document
ProvideDocumentSymbolsEntry ==
    /\ pc = "provide"
    /\ IF arg.document = Null
       THEN /\ exception' = "TypeError"
            /\ pc' = "thrown"
            /\ UNCHANGED <<parserVars, out, earlier>>
       ELSE IF arg.isCancellationRequested \/ ~isAxamlFile(arg.document)
       THEN /\ ProviderReturns(<<>>)
            /\ UNCHANGED <<parserVars, exception>>
       ELSE /\ Commit(EnterCall(Frame, docText[arg.document]))
            /\ pc' = "loop"
            /\ UNCHANGED <<out, earlier, exception>>
    /\ UNCHANGED <<result, docText, activeEditor, currentDocument,
                   currentAxamlElements, showLineNumbers, caller, toggle, arg,
                   fileName, languageId, errorMessages, quickPick,
                   cursorTimers, selection, warningMessages,
                   userText>>

\* the rest of the try block and the catch block: the conversion, and the
\* empty list with an error message when it throws
ProvideDocumentSymbolsConvert ==
    /\ pc = "done"
    /\ caller \in ProviderCallers
    /\ IF ConvertThrows(result, showLineNumbers)
       THEN /\ errorMessages' = errorMessages + 1
            /\ ProviderReturns(<<>>)
       ELSE /\ ProviderReturns(convertToDocumentSymbols(result, showLineNumbers))
            /\ UNCHANGED errorMessages
    /\ UNCHANGED <<parserVars, result, docText, activeEditor, currentDocument,
                   currentAxamlElements, showLineNumbers, caller, toggle, arg,
                   fileName, languageId, exception, quickPick,
                   cursorTimers, selection, warningMessages,
                   userText>>

\* the handler has ended: the arguments and the locals of the calls it made
\* are gone
CallIsOver ==
    /\ Commit(NewCall(<<>>))
    /\ result' = <<>>
    /\ arg' = <<>>

\* the caller goes on behind the call: toggleLineNumbers asks for its first
\* edit and waits, the others end; an exception ends the caller at once
AfterProvider ==
    /\ pc \in {"provided", "thrown"}
    /\ caller \in ProviderCallers
    /\ toggle' = IF pc = "provided" /\ caller = "toggleLineNumbers"
                 THEN [stage |-> "insert", doc |-> activeEditor]
                 ELSE toggle
    /\ pc' = "idle"
    /\ caller' = "none"
    /\ CallIsOver
    /\ earlier' = <<>>
    /\ UNCHANGED <<out, docText, activeEditor, currentDocument,
                   currentAxamlElements, showLineNumbers, fileName, languageId,
                   errorMessages, exception, quickPick,
                   cursorTimers, selection, warningMessages,
                   userText>>

\* `if (!elementName)` is not taken: the command was called with an
\* argument, and it is not the empty string
HasElementName(a) == "elementName" \in DOMAIN a /\ a.elementName # <<>>

\* navigateToElement without an element name: the flat list and the pick
\* list made of it are shown
NavigateShowQuickPick ==
    /\ pc = "answer"
    /\ caller = "navigateToElement"
    /\ ~HasElementName(arg)
    /\ quickPick' = QuickPickItems(addElementsToList(currentAxamlElements))
    /\ pc' = "pick"
    /\ UNCHANGED <<callVars, parserVars, result, docText, activeEditor,
                   currentDocument, currentAxamlElements, showLineNumbers,
                   caller, toggle, fileName, languageId, errorMessages,
                   exception, earlier, cursorTimers, selection, warningMessages,
                   userText>>

\* the pick list is closed and the command ends
NavigateEnd ==
    /\ pc = "pick"
    /\ quickPick' = <<>>
    /\ pc' = "idle"
    /\ caller' = "none"
    /\ CallIsOver
    /\ UNCHANGED <<out, docText, activeEditor, currentDocument,
                   currentAxamlElements, showLineNumbers, toggle, fileName,
                   languageId, errorMessages, exception, earlier, cursorTimers, selection, warningMessages,
                   userText>>

MaxOutlineLines == 3

Window == <<"Window">>

OutlineLineKinds ==
    { <<OpenTok(Window), WS, AvaloniaXmlns, WS, AttrTok("x:Name", "n"), GT>>,
                  \* <Window xmlns="https://github.com/avaloniaui" x:Name="n">
      <<WS, OpenTok(Button), WS, AttrTok("Content", "c"), SGT>> }
                                                   \*  <Button Content="c"/>

OutlineDocs ==
    UNION { [1..n -> OutlineLineKinds] : n \in 1..MaxOutlineLines }

\* what document 2 may be: a file that only its name, only its language, or
\* neither shows to be AXAML
OtherDocuments ==
    { [fileName |-> UpperCaseFileName, languageId |-> "xml"],
      [fileName |-> XmlFileName, languageId |-> "axaml"],
      [fileName |-> XmlFileName, languageId |-> "xml"] }

\* document 1 is a.axaml of the language axaml; document 2 has the same text
\* under another name and language; any of them, or none, is in the editor
InitOutline ==
    /\ lines = <<>>
    /\ lineIndex = 0
    /\ nodes = <<>>
    /\ elements = <<>>
    /\ stack = <<>>
    /\ pc = "idle"
    /\ result = <<>>
    /\ \E text \in OutlineDocs : docText = [d \in DocIds |-> text]
    /\ activeEditor \in DocIds \cup {Null}
    /\ currentDocument = Null
    /\ currentAxamlElements = <<>>
    /\ showLineNumbers = TRUE
    /\ caller = "none"
    /\ toggle = NoToggle
    /\ arg = <<>>
    /\ out = <<>>
    /\ \E other \in OtherDocuments :
          /\ fileName = [d \in DocIds |->
                            IF d = 1 THEN AxamlFileName ELSE other.fileName]
          /\ languageId = [d \in DocIds |->
                            IF d = 1 THEN "axaml" ELSE other.languageId]
    /\ errorMessages = 0
    /\ exception = "none"
    /\ earlier = <<>>
    /\ quickPick = <<>>
    /\ cursorTimers = NoTimers
    /\ selection = [line |-> 0, character |-> 0]
    /\ warningMessages = 0
    /\ userText = docText

NextOutline ==
    \/ \E d \in DocIds : \E c \in BOOLEAN : HostProvide(d, c)
    \/ \E d \in DocIds : DelayedRefresh(d)
    \/ ActivateCommand
    \/ ForceReloadCommand
    \/ ToggleLineNumbersCommand
    \/ ProvideDocumentSymbolsEntry
    \/ CancelToken
    \/ ParseAxamlCall
    \/ ProvideDocumentSymbolsConvert
    \/ AfterProvider
    \/ ToggleInsert
    \/ ToggleDelete
    \/ Request("navigateToElement")
    \/ CacheResult
    \/ NavigateShowQuickPick
    \/ NavigateEnd

SpecOutline == InitOutline /\ [][NextOutline]_vars

-----------------------------------------------------------------------------
(* C15, C16, C20: the outline provideDocumentSymbols returns *)

\* the provider has just returned, to whoever called it
ProviderReturned == pc = "provided" /\ caller \in ProviderCallers

RECURSIVE WithoutDetail(_)
\* the symbols with their detail strings blanked
WithoutDetail(symbols) ==
    [i \in 1..Len(symbols) |->
        [symbols[i] EXCEPT !.detail = <<>>,
                           !.children = WithoutDetail(symbols[i].children)]]

RECURSIVE AllSymbols(_)
AllSymbols(symbols) ==
    UNION { {symbols[i]} \cup AllSymbols(symbols[i].children) :
            i \in 1..Len(symbols) }

\* C15: the outline returned under the current value of the flag and the
\* outline of the same forest under the other value have the same tree
\* shape, and corresponding symbols have the same name, category, full range
\* and selection range: they are equal once the detail strings are blanked.
C15_FlagChangesDetailOnly ==
    ProviderReturned =>
        /\ Len(out) = Len(result)
        /\ WithoutDetail(out)
              = WithoutDetail(convertToDocumentSymbols(result, ~showLineNumbers))

\* C15 witness: after a toggle the provider returns, with the flag off, an
\* outline with a child symbol that differs from the outline returned with
\* the flag on only in its detail strings.
C15_Witness ==
    /\ ProviderReturned
    /\ caller = "toggleLineNumbers"
    /\ ~showLineNumbers
    /\ earlier # <<>> /\ out # earlier
    /\ WithoutDetail(out) = WithoutDetail(earlier)
    /\ \E i \in 1..Len(out) : out[i].children # <<>>

\* the line holds the start of a tag of that name
HasOpenTag(line, tagName) == \E i \in 1..Len(line) : line[i] = OpenTok(tagName)

RECURSIVE DetailsAsClaimed(_, _, _, _)
\* every symbol's detail is the tag name, followed by " (Line n)" with
\* n = startLine + 1 when the flag is on, and line n of the text (counted
\* from 1) is the line of the opening tag
DetailsAsClaimed(symbols, forest, flag, text) ==
    /\ Len(symbols) = Len(forest)
    /\ \A i \in 1..Len(forest) :
          /\ symbols[i].detail =
                IF flag
                THEN JoinName(forest[i].tagName)
                        \o <<" (Line ", forest[i].startLine + 1, ")">>
                ELSE JoinName(forest[i].tagName)
          /\ forest[i].startLine + 1 \in 1..Len(text)
          /\ HasOpenTag(text[forest[i].startLine + 1], forest[i].tagName)
          /\ DetailsAsClaimed(symbols[i].children, forest[i].children, flag, text)

\* C16: the detail of every symbol of a returned outline is exactly the tag
\* name when the flag is off and the tag name followed by ` (Line n)`,
\* n = startLine + 1, the 1-based line of the opening tag, when it is on.
C16_DetailString ==
    ProviderReturned => DetailsAsClaimed(out, result, showLineNumbers, lines)

\* C16 witness: an outline returned with the flag on has a symbol for a
\* Button on the second line, and one returned with the flag off was
\* returned before it.
C16_Witness ==
    /\ ProviderReturned /\ showLineNumbers
    /\ \E s \in AllSymbols(out) : s.detail = <<"Button", " (Line ", 2, ")">>
    /\ \E s \in AllSymbols(earlier) : s.detail = <<"Button">>

RECURSIVE SameStructure(_, _)
\* one symbol per element, the i-th symbol of a list made of the i-th
\* element of the list it was converted from, at every depth
SameStructure(symbols, forest) ==
    /\ Len(symbols) = Len(forest)
    /\ \A i \in 1..Len(forest) :
          /\ symbols[i].name = forest[i].name
          /\ symbols[i].range.start =
                Position(forest[i].startLine, forest[i].startColumn)
          /\ symbols[i].range.end =
                Position(forest[i].endLine, forest[i].endColumn)
          /\ SameStructure(symbols[i].children, forest[i].children)

\* C20: a returned outline has one symbol per element of the forest, the
\* i-th child symbol of a symbol being made of the i-th child of its
\* element; and the conversion changes neither the forest, nor the cache,
\* nor the outline the call before it returned.
C20_ConversionPreservesStructure ==
    /\ [](ProviderReturned => SameStructure(out, result))
    /\ [][(pc = "done" /\ caller \in ProviderCallers) =>
            /\ UNCHANGED <<nodes, elements, result, currentDocument,
                           currentAxamlElements>>
            /\ earlier' = out]_vars

\* C20 witness: an outline whose first symbol has two child symbols was
\* returned after another outline.
C20_Witness ==
    /\ ProviderReturned
    /\ earlier # <<>>
    /\ \E i \in 1..Len(out) : Len(out[i].children) = 2

-----------------------------------------------------------------------------
(* C17, C18: failures and detection in provideDocumentSymbols *)

\* C17 (as claimed): no call of provideDocumentSymbols, by the host, a timer
\* or a command, ends with an exception that reaches its caller, and a call
\* that showed an error message returned the empty list and showed one.
C17_NoExceptionEscapes ==
    /\ exception = "none"
    /\ pc # "thrown"
    /\ (ProviderReturned /\ errorMessages > 0) => (out = <<>> /\ errorMessages = 1)

\* the detection of the claim: the file name ends with .axaml whatever the
\* case of its letters, or the language id is axaml, or the text holds the
\* Avalonia xmlns declaration
DetectionSucceeds(d) ==
    \/ \E n \in 0..(Len(fileName[d]) - Len(DotAxaml)) :
          ToLowerCase(SubSeq(fileName[d], n + 1, Len(fileName[d]))) = DotAxaml
    \/ languageId[d] = "axaml"
    \/ \E l \in 1..Len(docText[d]) : \E i \in 1..Len(docText[d][l]) :
          docText[d][l][i] = AttrTok("xmlns", "https://github.com/avaloniaui")

\* C18: the provider is inside parseAxaml, or behind it, only for a document
\* on which detection succeeds; and a call for a document on which all three
\* tests fail returns the empty list at once, without a call of parseAxaml
\* and without an error message.
C18_ParseOnlyWhenDetected ==
    /\ []((caller \in ProviderCallers /\ pc \in {"loop", "done"})
            => DetectionSucceeds(arg.document))
    /\ [][(pc = "provide" /\ arg.document # Null
             /\ ~DetectionSucceeds(arg.document)) =>
            /\ pc' = "provided"
            /\ out' = <<>>
            /\ errorMessages' = 0
            /\ UNCHANGED <<parserVars, result>>]_vars

\* C18 witness: the host's call for a document that is not AXAML by name,
\* language or text, with a token that is not cancelled, has returned the
\* empty list; no text was parsed and no error is shown.
C18_Witness ==
    /\ ProviderReturned
    /\ caller = "provideDocumentSymbols"
    /\ ~arg.isCancellationRequested
    /\ ~DetectionSucceeds(arg.document)
    /\ out = <<>>
    /\ lines = <<>> /\ nodes = <<>> /\ result = <<>>
    /\ errorMessages = 0

-----------------------------------------------------------------------------
(* C19: the pick list of the navigate command *)

\* where an element stands in the pick list
PickIndex(element) ==
    CHOOSE i \in 1..Len(quickPick) : quickPick[i].element = element

\* in a list of siblings every element, and all that is below it, stands
\* before the sibling that follows it
SiblingsInOrder(siblings) ==
    \A k \in 1..(Len(siblings) - 1) :
        \A d \in {siblings[k]} \cup AllNodes(siblings[k].children) :
            PickIndex(d) < PickIndex(siblings[k + 1])

\* C19: the pick list holds every node of the cached forest exactly once,
\* every parent before its children and siblings (with all below them) in
\* their original order, and every entry carries the label, the tag name
\* and the 1-based starting line of its node.
C19_PickListIsPreOrder ==
    pc = "pick" =>
        /\ Len(quickPick) = Cardinality(AllNodes(currentAxamlElements))
        /\ {quickPick[i].element : i \in 1..Len(quickPick)}
              = AllNodes(currentAxamlElements)
        /\ SiblingsInOrder(currentAxamlElements)
        /\ \A p \in AllNodes(currentAxamlElements) :
              /\ SiblingsInOrder(p.children)
              /\ \A k \in 1..Len(p.children) :
                    PickIndex(p) < PickIndex(p.children[k])
        /\ \A i \in 1..Len(quickPick) :
              /\ quickPick[i].label = quickPick[i].element.name
              /\ quickPick[i].description = JoinName(quickPick[i].element.tagName)
              /\ quickPick[i].detail = <<"Line ", quickPick[i].element.startLine + 1>>

\* C19 witness: the pick list of a forest three levels deep is shown, with
\* the named root first and the bracketed Button last.
C19_Witness ==
    /\ pc = "pick"
    /\ Len(quickPick) = 3
    /\ Len(currentAxamlElements) = 1
    /\ quickPick[1].label = <<"n">>
    /\ quickPick[2].element \in AllNodes(quickPick[1].element.children)
    /\ quickPick[3].element \in AllNodes(quickPick[2].element.children)
    /\ quickPick[3].label = <<"[Button \"", "c", "\"]">>
    /\ quickPick[3].detail = <<"Line ", 3>>

-----------------------------------------------------------------------------
(* C21: the forests the handlers hold *)

\* C21: once parseAxaml has returned a forest, no handler (navigate, element
\* info, cursor move, toggle, the provider's conversion) changes a node of
\* it: the returned forest and the objects behind it stay as they are until
\* the next call of parseAxaml is entered, and the cache changes only by
\* being set to the forest a call has just returned for the active
\* document's text or to the empty list.
C21_ForestNeverMutated ==
    /\ [][(pc # "loop" /\ pc' # "loop") => UNCHANGED <<nodes, elements, result>>]_vars
    /\ [][currentAxamlElements' # currentAxamlElements =>
            \/ currentAxamlElements' = <<>>
            \/ /\ pc = "done"
               /\ currentAxamlElements' = result
               /\ result = ParseAxaml(docText[activeEditor])]_vars

\* C21 witness: the cursor handler reads a cache that holds the forest of
\* document 2, parsed after a toggle had emptied the cache, while document 1
\* holds another text.
C21_Witness ==
    /\ pc = "answer"
    /\ caller = "onCursorPositionChanged"
    /\ showLineNumbers = FALSE
    /\ currentDocument = 2
    /\ currentAxamlElements # <<>>
    /\ currentAxamlElements = ParseAxaml(docText[2])
    /\ docText[1] # docText[2]

-----------------------------------------------------------------------------
(* parseAttributes over the characters of the attribute string: the string, *)
(* the keys and the values are sequences of characters                       *)

Letters ==
    {UpperCaseLetters[i] : i \in 1..26} \cup {LowerCaseLetters[i] : i \in 1..26}

\* [a-zA-Z0-9.:_-]
NameChars ==
    Letters \cup {"0", "1", "2", "3", "4", "5", "6", "7", "8", "9"}
            \cup {".", ":", "_", "-"}

\* \s
WhitespaceChars == {" ", "\t"}

\* ["']
QuoteChars == {"\"", "'"}

\* the end (exclusive) of the longest run of characters of `set` from i on
SpanIn(str, i, set) ==
    CHOOSE j \in i..(Len(str) + 1) :
        /\ \A h \in i..(j - 1) : str[h] \in set
        /\ j = Len(str) + 1 \/ str[j] \notin set

\* the end (exclusive) of the longest run of characters not of `set`
SpanNotIn(str, i, set) ==
    CHOOSE j \in i..(Len(str) + 1) :
        /\ \A h \in i..(j - 1) : str[h] \notin set
        /\ j = Len(str) + 1 \/ str[j] \in set

RECURSIVE ReplaceWhitespace(_)
\* attributeStr.replace(/\s+/g, ' ')
ReplaceWhitespace(str) ==
    IF str = <<>> THEN <<>>
    ELSE IF Head(str) \in WhitespaceChars
         THEN <<" ">> \o ReplaceWhitespace(
                             SubSeq(str, SpanIn(str, 1, WhitespaceChars), Len(str)))
         ELSE <<Head(str)>> \o ReplaceWhitespace(Tail(str))

\* String.prototype.trim, over characters
TrimChars(str) ==
    LET first == SpanIn(str, 1, WhitespaceChars)
    IN IF first > Len(str) THEN <<>>
       ELSE SubSeq(str, first,
                   CHOOSE j \in first..Len(str) :
                       /\ str[j] \notin WhitespaceChars
                       /\ \A h \in (j + 1)..Len(str) : str[h] \in WhitespaceChars)

\* /([a-zA-Z][a-zA-Z0-9.:_-]*)\s*=\s*["']([^"']*)["']/ tried at position i
\* (1-based): <<>> if it does not match there, else the key, the value and
\* the position behind the match.  Every part of the pattern is followed by
\* a character it cannot match, so the longest runs are the only match.
AttrRegexMatch(str, i) ==
    LET keyEnd == SpanIn(str, i, NameChars)
        eq == SpanIn(str, keyEnd, WhitespaceChars)
        open == SpanIn(str, eq + 1, WhitespaceChars)
        close == SpanNotIn(str, open + 1, QuoteChars)
    IN IF /\ str[i] \in Letters
          /\ eq <= Len(str) /\ str[eq] = "="
          /\ open <= Len(str) /\ str[open] \in QuoteChars
          /\ close <= Len(str)
       THEN <<[key |-> SubSeq(str, i, keyEnd - 1),
               value |-> SubSeq(str, open + 1, close - 1),
               lastIndex |-> close + 1]>>
       ELSE <<>>

RECURSIVE AttrRegexExec(_, _, _)
\* the while loop over attrRegex.exec(cleanedStr): the leftmost match from
\* lastIndex on is set in the map, until there is none
AttrRegexExec(cleanedStr, lastIndex, attributes) ==
    LET starts == {i \in lastIndex..Len(cleanedStr) :
                      AttrRegexMatch(cleanedStr, i) # <<>>}
    IN IF starts = {} THEN attributes
       ELSE LET i == CHOOSE i \in starts : \A h \in starts : i <= h
                match == AttrRegexMatch(cleanedStr, i)[1]
            IN AttrRegexExec(cleanedStr, match.lastIndex,
                             MapSet(attributes, match.key, match.value))

\* parseAttributes(attributeStr), the Map as the sequence of its entries
ParseAttributes(attributeStr) ==
    AttrRegexExec(TrimChars(ReplaceWhitespace(attributeStr)), 1, <<>>)

-----------------------------------------------------------------------------
(* The attribute strings parseAttributes is called with *)

MaxAssignments == 2

\* the other quote character
OtherQuote(q) == IF q = "\"" THEN "'" ELSE "\""

\* key="value" and key='value' as written: the whitespace before it, a key,
\* '=' with or without blanks around it, and a value that is empty, plain,
\* or holds the other quote character
Assignments ==
    { [before |-> before, key |-> key, eq |-> eq, quote |-> q, value |-> value] :
        before \in {<<" ">>, <<" ", "\t">>},
        key \in {<<"a">>, <<"x", ":", "a">>},
        eq \in {<<"=">>, <<" ", "=", " ">>},
        q \in QuoteChars,
        value \in {<<>>, <<"1">>, <<"2">>} }
    \cup
    { [before |-> <<" ">>, key |-> key, eq |-> <<"=">>, quote |-> q,
       value |-> <<"i", "t", OtherQuote(q), "s">>] :
        key \in {<<"a">>, <<"x", ":", "a">>}, q \in QuoteChars }

\* the characters of an assignment
Written(a) ==
    a.before \o a.key \o a.eq \o <<a.quote>> \o a.value \o <<a.quote>>

RECURSIVE AttributeText(_)
\* the assignments written one after the other
AttributeText(assignments) ==
    IF assignments = <<>> THEN <<>>
    ELSE Written(Head(assignments)) \o AttributeText(Tail(assignments))

AttrArgs == UNION { [1..n -> Assignments] : n \in 1..MaxAssignments }

\* this.parseAttributes(attributesStr)
ParseAttributesCall ==
    /\ pc = "call"
    /\ out' = ParseAttributes(AttributeText(arg))
    /\ pc' = "done"
    /\ caller' = "parseAttributes"
    /\ UNCHANGED <<parserVars, result, docText, activeEditor, currentDocument,
                   currentAxamlElements, showLineNumbers, toggle, arg, hostVars>>

InitAttr ==
    /\ lines = <<>>
    /\ lineIndex = 0
    /\ nodes = <<>>
    /\ elements = <<>>
    /\ stack = <<>>
    /\ pc = "call"
    /\ result = <<>>
    /\ docText = [d \in DocIds |-> <<>>]
    /\ activeEditor = 1
    /\ currentDocument = Null
    /\ currentAxamlElements = <<>>
    /\ showLineNumbers = TRUE
    /\ caller = "none"
    /\ toggle = NoToggle
    /\ arg \in AttrArgs
    /\ out = <<>>
    /\ HostAtStart

NextAttr == ParseAttributesCall

SpecAttr == InitAttr /\ [][NextAttr]_vars

-----------------------------------------------------------------------------
(* C22, C28: the map parseAttributes returns *)

AttributesReturned == pc = "done" /\ caller = "parseAttributes"

\* the assignments of the argument that name a key
AssignmentsOf(key) == {i \in 1..Len(arg) : arg[i].key = key}

\* the entries the returned map holds for a key
EntriesOf(key) == {i \in 1..Len(out) : out[i][1] = key}

\* C22 (as claimed): for an attribute string in which a key is assigned
\* several times, the returned map has exactly one entry for that key, and
\* its value is the value of the last of these assignments.
C22_LastAssignmentWins ==
    AttributesReturned =>
        \A i \in 1..Len(arg) :
            Cardinality(AssignmentsOf(arg[i].key)) > 1 =>
                /\ Cardinality(EntriesOf(arg[i].key)) = 1
                /\ \A last \in AssignmentsOf(arg[i].key) :
                      (\A h \in AssignmentsOf(arg[i].key) : h <= last) =>
                          MapGet(out, arg[i].key) = arg[last].value

\* C28 (as claimed): an attribute written key="v", v without a double quote,
\* or key='v', v without a single quote, is held in the map as key -> v (for
\* a key assigned more than once, v is the value written last).
C28_ValueVerbatim ==
    AttributesReturned =>
        \A i \in 1..Len(arg) :
            (\A h \in AssignmentsOf(arg[i].key) : h <= i) =>
                /\ MapHas(out, arg[i].key)
                /\ MapGet(out, arg[i].key) = arg[i].value

-----------------------------------------------------------------------------
(* C23 - C26: the loop of parseAxaml, step by step *)

\* the loop is about to read a line whose trimmed content is a closing tag
AtClosingTagLine ==
    pc = "loop" /\ InLoop(Frame) /\ CloseTagMatch(TrimmedLine(Frame))

\* C23 (as claimed): when the scanner reaches a line that is exactly a
\* closing tag while the stack is not empty, the top of the stack is popped,
\* whatever its tag name, and the popped node's endLine and endColumn become
\* the index and the length of that line.
C23_ClosingTagPops ==
    [][(AtClosingTagLine /\ stack # <<>>) =>
          /\ stack' = SubSeq(stack, 1, Len(stack) - 1)
          /\ nodes'[stack[Len(stack)]].endLine = lineIndex
          /\ nodes'[stack[Len(stack)]].endColumn = StrLength(Line(Frame))]_vars

\* the loop is about to read a line whose first start tag is kept and has
\* no '>' behind it on that line, and a later line holds a '>'
AtMultiLineStartTag ==
    /\ pc = "loop"
    /\ InLoop(Frame)
    /\ LET t == TrimmedLine(Frame)
           i == TagMatch(t)
       IN /\ t # <<>>
          /\ ~StartsWithCloseMark(t)
          /\ i # 0
          /\ Survives(t[i].n)
          /\ \A j \in (i + 1)..Len(t) : ~HasGt(t[j])
    /\ \E k \in (lineIndex + 1)..(Len(lines) - 1) : IncludesGt(lines[k + 1])

\* the line (0-based) of the first '>' behind the start tag of line s
FirstGtLine(ls, s) ==
    CHOOSE k \in (s + 1)..(Len(ls) - 1) :
        /\ IncludesGt(ls[k + 1])
        /\ \A h \in (s + 1)..(k - 1) : ~IncludesGt(ls[h + 1])

\* the key="value" pairs written from the start tag of line s up to the
\* first '>' of line k
TagAttributes(ls, s, k) ==
    LET from(l) == IF l = s THEN TagMatch(ls[l + 1]) + 1 ELSE 1
        LineGt(l) == CHOOSE j \in 1..Len(ls[l + 1]) :
                        /\ HasGt(ls[l + 1][j])
                        /\ \A h \in 1..(j - 1) : ~HasGt(ls[l + 1][h])
        to(l) == IF l = k THEN LineGt(l) - 1 ELSE Len(ls[l + 1])
    IN UNION { { ls[l + 1][j].n : j \in {h \in from(l)..to(l) : ls[l + 1][h].k = "attr"} } :
                 l \in s..k }

\* C24 (as claimed): for a start tag on line s whose first '>' is on a later
\* line k, the step creates exactly one element, with startLine = s and
\* endLine = k and with every attribute written on the lines s..k in its
\* map, leaves the entries of the stack as they are, and goes on at line
\* k + 1; no element ever starts on one of the lines s+1..k.
C24_MultiLineStartTag ==
    /\ [][AtMultiLineStartTag =>
            LET s == lineIndex
                k == FirstGtLine(lines, lineIndex)
                element == nodes'[Len(nodes')]
            IN /\ Len(nodes') = Len(nodes) + 1
               /\ element.startLine = s
               /\ element.endLine = k
               /\ \A kv \in TagAttributes(lines, s, k) :
                     /\ MapHas(element.attributes, kv[1])
                     /\ MapGet(element.attributes, kv[1]) = kv[2]
               /\ lineIndex' = k + 1
               /\ Len(stack') >= Len(stack)
               /\ \A i \in 1..Len(stack) : stack'[i] = stack[i]
               /\ \A r \in NodeRefs : nodes'[r] = nodes[r] \/ r = stack[Len(stack)]]_vars
    /\ [](\A r, q \in NodeRefs :
             ~(nodes[r].startLine < nodes[q].startLine
                 /\ nodes[q].startLine <= nodes[r].endLine))

\* line s (0-based) is read for its first start tag, which is kept and has
\* no '>' behind it, neither on line s nor on any later line
UnterminatedAt(ls, s) ==
    /\ LET t == Trim(ls[s + 1])
           i == TagMatch(t)
       IN /\ t # <<>>
          /\ ~StartsWithCloseMark(t)
          /\ i # 0
          /\ Survives(t[i].n)
          /\ \A j \in (i + 1)..Len(t) : ~HasGt(t[j])
    /\ \A k \in (s + 1)..(Len(ls) - 1) : ~IncludesGt(ls[k + 1])

\* C25 (as claimed): the line cursor strictly advances on every iteration of
\* the loop and never passes the end of the text, so the loop ends after at
\* most as many iterations as the text has lines; and a start tag with no
\* '>' before the end of the document yields exactly one element, whose
\* endLine is the last line, and no element is created after it.
C25_TerminatesAndConsumesToEnd ==
    /\ [][(pc = "loop" /\ pc' = "loop") => lineIndex' > lineIndex]_vars
    /\ [](lineIndex <= Len(lines))
    /\ [][(pc = "loop" /\ InLoop(Frame) /\ UnterminatedAt(lines, lineIndex)) =>
            Len(nodes') = Len(nodes) + 1]_vars
    /\ [](\A r \in NodeRefs :
             UnterminatedAt(lines, nodes[r].startLine) =>
                 /\ nodes[r].endLine = Len(lines) - 1
                 /\ r = Len(nodes))

\* C26: a closing-tag line read while the stack is empty raises no error
\* (the loop goes on with the next line) and leaves the root list, the
\* stack and every existing node as they are.
C26_UnmatchedClosingTagIgnored ==
    [][(AtClosingTagLine /\ stack = <<>>) =>
          /\ pc' = "loop"
          /\ lineIndex' = lineIndex + 1
          /\ UNCHANGED <<elements, stack, nodes>>]_vars

\* C26 witness: the line </Grid> has been read behind the root <Button/>,
\* with nothing open.
C26_Witness ==
    /\ pc = "loop"
    /\ lineIndex = 2
    /\ lines[1] = <<WS, OpenTok(Button), SGT>>
    /\ lines[2] = <<CloseTok(Grid)>>
    /\ stack = <<>>
    /\ elements = <<1>>
    /\ nodes[1].endLine = 0

-----------------------------------------------------------------------------
(* C27: the cancellation token *)

\* C27: a call of provideDocumentSymbols entered with a cancelled token
\* returns the empty list at once, for an AXAML document too, with the
\* parser not entered and no notification; a call entered with a live token
\* returns the outline of the document's text under the current flag,
\* whether or not the token is cancelled before the call returns.
C27_CancellationOnlyAtEntry ==
    /\ [][(pc = "provide" /\ arg.document # Null /\ arg.isCancellationRequested) =>
            /\ pc' = "provided"
            /\ out' = <<>>
            /\ errorMessages' = 0
            /\ UNCHANGED <<parserVars, result>>]_vars
    /\ [][(pc = "provide" /\ arg.document # Null /\ ~arg.isCancellationRequested
             /\ DetectionSucceeds(arg.document)) => pc' = "loop"]_vars
    /\ [][(pc = "done" /\ caller \in ProviderCallers) =>
            /\ pc' = "provided"
            /\ errorMessages' = 0
            /\ out' = convertToDocumentSymbols(
                          ParseAxaml(docText[arg.document]), showLineNumbers)]_vars

\* C27 witness: the provider has returned a non-empty outline to the host,
\* whose token was cancelled after the entry check.
C27_Witness ==
    /\ ProviderReturned
    /\ caller = "provideDocumentSymbols"
    /\ arg.isCancellationRequested
    /\ Len(out) > 0
    /\ out[1].children # <<>>

-----------------------------------------------------------------------------
(* C29: the selection range of an outline symbol *)

\* the text of a line holds '<' and the tag name at a column
OpeningTagAt(line, column, tagName) ==
    \E j \in 1..Len(line) :
        /\ line[j] = OpenTok(tagName)
        /\ StrLength(SubSeq(line, 1, j - 1)) = column

\* C29 (as claimed): for every element of a forest parseAxaml returns, the
\* selection range createDocumentSymbol builds goes from (startLine,
\* startColumn) to (startLine, startColumn + length(tagName) + 1), these
\* columns hold the '<' and the tag name of the element's opening tag, and
\* the element's full range contains the selection range.
C29_SelectionRangeIsTagName ==
    pc = "done" =>
        \A element \in AllNodes(result) :
            LET symbol == createDocumentSymbol(element, TRUE)
            IN /\ symbol.selectionRange.start =
                      Position(element.startLine, element.startColumn)
               /\ symbol.selectionRange.end =
                      Position(element.startLine,
                               element.startColumn + NameLength(element.tagName) + 1)
               /\ OpeningTagAt(lines[element.startLine + 1], element.startColumn,
                               element.tagName)
               /\ RangeContainsRange(symbol.range, symbol.selectionRange)

-----------------------------------------------------------------------------
(* The selection listener and its timeouts *)

MaxBurst == 3

\* where the user puts the cursor: the start and the end of a line
CursorPositions(text) ==
    UNION { {[line |-> l, character |-> 0],
             [line |-> l, character |-> StrLength(text[l + 1])]} :
            l \in 0..(Len(text) - 1) }

\* onDidChangeTextEditorSelection, raised when the user moves the cursor: for
\* an editor on an .axaml file a timeout of 100 ms is set; nothing cancels
\* the timeouts set before.  Two events with no run of a timeout between
\* them are less than 100 ms apart and belong to one burst.
SelectionChanged(active) ==
    /\ pc = "idle"
    /\ activeEditor # Null
    /\ cursorTimers.pending < MaxBurst
    /\ selection' = active
    /\ IF EndsWith(fileName[activeEditor], DotAxaml)
       THEN cursorTimers' = SetTimeout(cursorTimers)
       ELSE UNCHANGED cursorTimers
    /\ UNCHANGED <<parserVars, pc, result, docText, activeEditor,
                   currentDocument, currentAxamlElements, showLineNumbers,
                   caller, toggle, callVars, fileName, languageId,
                   errorMessages, exception, earlier, quickPick,
                   warningMessages, userText>>

\* a timeout runs: onCursorPositionChanged(event.textEditor) up to its use
\* of the cache
SelectionTimeout ==
    /\ pc = "idle"
    /\ cursorTimers.pending > 0
    /\ cursorTimers' = [pending |-> cursorTimers.pending - 1,
                        executed |-> cursorTimers.executed + 1]
    /\ caller' = "onCursorPositionChanged"
    /\ IF currentDocument # activeEditor
       THEN /\ Commit(EnterCall(Frame, docText[activeEditor]))
            /\ pc' = "loop"
       ELSE /\ pc' = "answer"
            /\ UNCHANGED parserVars
    /\ UNCHANGED <<result, docText, activeEditor, currentDocument,
                   currentAxamlElements, showLineNumbers, toggle, callVars,
                   fileName, languageId, errorMessages, exception, earlier,
                   quickPick, selection, warningMessages, userText>>

InitCursor == InitEditor

NextCursor ==
    \/ \E active \in CursorPositions(docText[activeEditor]) :
          SelectionChanged(active)
    \/ SelectionTimeout
    \/ ParseAxamlCall
    \/ CacheResult
    \/ Answer
    \/ \E d \in DocIds : \E text \in EditorDocs : Edit(d, text)

SpecCursor == InitCursor /\ [][NextCursor]_vars

-----------------------------------------------------------------------------
(* C30: the debounce of cursor moves *)

\* C30 (as claimed): the selection-change events of one burst, all arriving
\* within 100 ms of the first, lead to at most one execution of
\* onCursorPositionChanged.
C30_OneExecutionPerBurst == cursorTimers.executed <= 1

-----------------------------------------------------------------------------
(* C31: the closing tag of a skipped tag *)

\* a tag name the parser makes no element for
IsSkippedName(name) == IncludesDot(name) \/ name \in definitionTags

\* the loop is about to read a line that is the closing tag of a skipped tag
AtSkippedClosingTagLine ==
    /\ pc = "loop"
    /\ InLoop(Frame)
    /\ CloseTagMatch(TrimmedLine(Frame))
    /\ IsSkippedName(TrimmedLine(Frame)[1].n)

-----------------------------------------------------------------------------
(* C32: multi-line comments *)

IncludesCommentEnd(line) == \E i \in 1..Len(line) : line[i].k = "cclose"

\* line s (0-based) starts a comment that does not end on it
StartsMultiLineComment(ls, s) ==
    /\ StartsWithCommentMark(Trim(ls[s + 1]))
    /\ ~IncludesCommentEnd(ls[s + 1])

\* line l (0-based) lies after the start of a multi-line comment and not
\* after the line that ends it
InsideComment(ls, l) ==
    \E s \in 0..(l - 1) :
        /\ StartsMultiLineComment(ls, s)
        /\ \A h \in (s + 1)..(l - 1) : ~IncludesCommentEnd(ls[h + 1])

\* C32 (as claimed): no element is made from a line inside a multi-line
\* comment: no element of the call, in the forest or on the stack of open
\* elements, starts on such a line.
C32_NoElementInsideComment ==
    \A r \in NodeRefs : ~InsideComment(lines, nodes[r].startLine)

-----------------------------------------------------------------------------
(* C34, C35: the labels of getElementDisplayName and of
   getCleanElementDisplayName *)

\* the number of characters of a label
LabelLength(label) == SumLen(label)

\* C34: the label either computation returns is a non-empty string, for
\* every tag name and every attribute text, the texts with x:Name, Name,
\* Content or Text written with an empty value included.
C34_LabelNonEmpty == LabelReturned => LabelLength(out) > 0

\* C34 witness: a Button whose x:Name, Name, Content and Text are all
\* written with empty values got the label [Button].
C34_Witness ==
    /\ pc = "done" /\ caller = "getElementDisplayName"
    /\ arg.tagName = <<"Button">>
    /\ \A key \in {"x:Name", "Name", "Content", "Text"} :
          Present(key) /\ ~PresentNonEmpty(key)
    /\ out = <<"[", "Button", "]">>

\* the element parseAxaml makes of the arguments: it keeps the tag name and
\* the map parseAttributes returns for the attribute text
ArgElement ==
    [tagName |-> arg.tagName, attributes |-> parseAttributes(arg.attributesStr)]

\* C35: the label getElementDisplayName computes from a tag name and an
\* attribute text (the element's name field) and the label
\* getCleanElementDisplayName computes from the element made of them (the
\* name of its outline symbol) are the same string.
C35_LabelsAgree ==
    /\ (pc = "done" /\ caller = "getElementDisplayName") =>
            out = getCleanElementDisplayName(ArgElement)
    /\ (pc = "done" /\ caller = "getCleanElementDisplayName") =>
            out = getElementDisplayName(arg.tagName, arg.attributesStr)

\* C35 witness: the symbol label of a Button with an empty x:Name, a Content
\* and a Text is the label made of its Content, as its name field is.
C35_Witness ==
    /\ pc = "done" /\ caller = "getCleanElementDisplayName"
    /\ arg.tagName = <<"Button">>
    /\ Present("x:Name") /\ ~PresentNonEmpty("x:Name") /\ ~Present("Name")
    /\ PresentNonEmpty("Content") /\ PresentNonEmpty("Text")
    /\ out = <<"[Button \"", "c", "\"]">>
    /\ out = getElementDisplayName(arg.tagName, arg.attributesStr)

-----------------------------------------------------------------------------
(* C36: one element per line, in document order *)

\* the start lines of a list of elements grow strictly
StrictlyIncreasingStartLines(flatElements) ==
    \A i \in 1..Len(flatElements) : \A j \in (i + 1)..Len(flatElements) :
        flatElements[i].startLine < flatElements[j].startLine

\* C36: in the forest parseAxaml returns no two elements start on the same
\* line, and the flat list the navigate command makes of the forest (every
\* element before its children, siblings in their order) has strictly
\* increasing start lines; the same holds of the elements made so far at
\* every step of the loop.
C36_OneElementPerLineInOrder ==
    /\ \A r, q \in NodeRefs : r < q => nodes[r].startLine < nodes[q].startLine
    /\ pc = "done" =>
          /\ Len(addElementsToList(result)) = Len(nodes)
          /\ StrictlyIncreasingStartLines(addElementsToList(result))

\* C36 witness: a returned forest of three elements, with two roots and a
\* child, one of them read from a line that holds two start tags.
C36_Witness ==
    /\ pc = "done"
    /\ Len(addElementsToList(result)) = 3
    /\ Len(result) = 2
    /\ result[2].children # <<>>
    /\ \E l \in 1..Len(lines) : StartTagCount(<<lines[l]>>) > 1

-----------------------------------------------------------------------------
(* The navigate command with an element name, the element-info command and   *)
(* the cursor-move handler, with the cursor of the active editor             *)

MaxNavLines == 2

NavLineKinds ==
    { <<OpenTok(Grid), GT>>,                                 \* <Grid>
      <<WS, OpenTok(Button), WS, AttrTok("x:Name", "n"), SGT>>,
                                                  \*  <Button x:Name="n"/>
      <<WS, OpenTok(Button), SGT>> }                         \*  <Button/>

NavDocs == UNION { [1..n -> NavLineKinds] : n \in 1..MaxNavLines }

\* the element names the command is called with: the empty string, two
\* labels the documents hold, a label in another case, a label with a blank
\* behind it
ElementNames ==
    { <<>>, <<"n">>, <<"N">>, <<"n", " ">>,
      <<"[", "B", "u", "t", "t", "o", "n", "]">> }

\* no argument at all, or an element name
NavigateArgs == {<<>>} \cup {[elementName |-> n] : n \in ElementNames}

RECURSIVE LabelChars(_)
\* the characters of a label
LabelChars(label) ==
    IF label = <<>> THEN <<>>
    ELSE (IF Len(Head(label)) = 0 THEN <<>>
          ELSE IF Len(Head(label)) = 1 THEN <<Head(label)>>
          ELSE Spell(Head(label))) \o LabelChars(Tail(label))

\* the last element of the list with the name
FindLast(flatElements, elementName) ==
    LET Hit(i) == LabelChars(flatElements[i].name) = elementName
    IN IF \E i \in 1..Len(flatElements) : Hit(i)
       THEN <<flatElements[CHOOSE i \in 1..Len(flatElements) :
                  Hit(i) /\ \A j \in (i + 1)..Len(flatElements) : ~Hit(j)]>>
       ELSE <<>>

\* flatElements.find(e => e.name === elementName): undefined is <<>>, an
\* element e is <<e>>
Find(flatElements, elementName) ==
    LET Hit(i) == LabelChars(flatElements[i].name) = elementName
    IN IF \E i \in 1..Len(flatElements) : Hit(i)
       THEN <<flatElements[CHOOSE i \in 1..Len(flatElements) :
                  Hit(i) /\ \A j \in 1..(i - 1) : ~Hit(j)]>>
       ELSE <<>>

\* a command up to its use of the cache: a warning and the end when no
\* .axaml editor is active, a parse when the cache is of another document
CommandBegins(handler, a) ==
    /\ pc = "idle"
    /\ errorMessages' = 0
    /\ IF activeEditor = Null \/ ~EndsWith(fileName[activeEditor], DotAxaml)
       THEN /\ warningMessages' = 1
            /\ UNCHANGED <<parserVars, pc, caller, arg>>
       ELSE /\ warningMessages' = 0
            /\ arg' = a
            /\ caller' = handler
            /\ IF currentDocument # activeEditor
               THEN /\ Commit(EnterCall(Frame, docText[activeEditor]))
                    /\ pc' = "loop"
               ELSE /\ pc' = "answer"
                    /\ UNCHANGED parserVars
    /\ UNCHANGED <<result, docText, activeEditor, currentDocument,
                   currentAxamlElements, showLineNumbers, toggle, out,
                   fileName, languageId, exception, earlier, quickPick,
                   cursorTimers, selection, userText>>

\* axaml-outline.navigateToElement, called with or without an element name
NavigateToElementCommand(a) ==
    /\ cursorTimers.pending < MaxBurst
    /\ CommandBegins("navigateToElement", a)

\* axaml-outline.showElementInfo
ShowElementInfoCommand == CommandBegins("showElementInfo", <<>>)

\* the handler has returned
HandlerEnds ==
    /\ pc' = "idle"
    /\ caller' = "none"
    /\ CallIsOver

\* provider.parseAxaml(text) throws: the catch block shows an error message
\* (in the two commands) and returns; the two assignments to the cache,
\* which follow the call inside the try block, are not reached
ParseAxamlThrowsDocumentRecorded ==
    /\ pc = "loop"
    /\ caller \in CacheUsers
    /\ currentDocument' = activeEditor
    /\ errorMessages' =
          IF caller = "onCursorPositionChanged" THEN errorMessages
          ELSE errorMessages + 1
    /\ HandlerEnds
    /\ UNCHANGED <<docText, activeEditor, currentAxamlElements,
                   showLineNumbers, toggle, out, fileName, languageId,
                   exception, earlier, quickPick, cursorTimers, selection,
                   warningMessages, userText>>

ParseAxamlThrows ==
    /\ pc = "loop"
    /\ caller \in CacheUsers
    /\ errorMessages' =
          IF caller = "onCursorPositionChanged" THEN errorMessages
          ELSE errorMessages + 1
    /\ HandlerEnds
    /\ UNCHANGED <<docText, activeEditor, currentDocument,
                   currentAxamlElements, showLineNumbers, toggle, out,
                   fileName, languageId, exception, earlier, quickPick,
                   cursorTimers, selection, warningMessages, userText>>

\* function navigateToElement(editor, element): the cursor is put at the
\* start of the element's tag, which raises onDidChangeTextEditorSelection,
\* and the status bar names the element
NavigateToElement(element) ==
    /\ selection' = Position(element.startLine, element.startColumn)
    /\ cursorTimers' = SetTimeout(cursorTimers)
    /\ out' = <<"Navigated to: ", element>>

\* the branch with the last element of the name
NavigateFindLast ==
    /\ pc = "answer"
    /\ caller = "navigateToElement"
    /\ HasElementName(arg)
    /\ LET element == FindLast(addElementsToList(currentAxamlElements),
                                arg.elementName)
       IN IF element # <<>>
          THEN /\ NavigateToElement(element[1])
               /\ UNCHANGED warningMessages
          ELSE /\ warningMessages' = warningMessages + 1
               /\ UNCHANGED <<selection, cursorTimers, out>>
    /\ HandlerEnds
    /\ UNCHANGED <<docText, activeEditor, currentDocument,
                   currentAxamlElements, showLineNumbers, toggle, fileName,
                   languageId, errorMessages, exception, earlier, quickPick,
                   userText>>

\* the branch `else` of `if (!elementName)`: the first element of the flat
\* list with the name is navigated to, or a warning says there is none
NavigateFind ==
    /\ pc = "answer"
    /\ caller = "navigateToElement"
    /\ HasElementName(arg)
    /\ LET element == Find(addElementsToList(currentAxamlElements),
                            arg.elementName)
       IN IF element # <<>>
          THEN /\ NavigateToElement(element[1])
               /\ UNCHANGED warningMessages
          ELSE /\ warningMessages' = warningMessages + 1
               /\ UNCHANGED <<selection, cursorTimers, out>>
    /\ HandlerEnds
    /\ UNCHANGED <<docText, activeEditor, currentDocument,
                   currentAxamlElements, showLineNumbers, toggle, fileName,
                   languageId, errorMessages, exception, earlier, quickPick,
                   userText>>

\* the user picks the i-th item of the list: navigateToElement(editor,
\* selected.element)
NavigatePick(i) ==
    /\ pc = "pick"
    /\ i \in 1..Len(quickPick)
    /\ NavigateToElement(quickPick[i].element)
    /\ quickPick' = <<>>
    /\ HandlerEnds
    /\ UNCHANGED <<docText, activeEditor, currentDocument,
                   currentAxamlElements, showLineNumbers, toggle, fileName,
                   languageId, errorMessages, exception, earlier,
                   warningMessages, userText>>

\* the cursor-move handler that also puts the cursor at the start of the
\* element it found, as selectElementInOutline would
LookupSelectingElement ==
    /\ pc = "answer"
    /\ caller \in {"showElementInfo", "onCursorPositionChanged"}
    /\ LET element == findElementAtPosition(currentAxamlElements,
                           selection.line, selection.character)
       IN IF element # <<>> /\ caller = "onCursorPositionChanged"
          THEN /\ selection' = Position(element[1].startLine, element[1].startColumn)
               /\ cursorTimers' = SetTimeout(cursorTimers)
               /\ out' = element
          ELSE /\ out' = element
               /\ UNCHANGED <<selection, cursorTimers>>
    /\ HandlerEnds
    /\ UNCHANGED <<docText, activeEditor, currentDocument,
                   currentAxamlElements, showLineNumbers, toggle, fileName,
                   languageId, errorMessages, exception, earlier, quickPick,
                   warningMessages, userText>>

\* showElementInfo and onCursorPositionChanged behind the cache: the
\* element at editor.selection.active is looked up and shown (in a message,
\* in the status bar)
Lookup ==
    /\ pc = "answer"
    /\ caller \in {"showElementInfo", "onCursorPositionChanged"}
    /\ out' = findElementAtPosition(currentAxamlElements,
                                    selection.line, selection.character)
    /\ HandlerEnds
    /\ UNCHANGED <<docText, activeEditor, currentDocument,
                   currentAxamlElements, showLineNumbers, toggle, fileName,
                   languageId, errorMessages, exception, earlier, quickPick,
                   cursorTimers, selection, warningMessages, userText>>

\* the text of document 2
OtherText == << <<WS, OpenTok(Button), SGT>> >>

\* document 1 is in the editor; the cache is empty, or holds the forest of
\* document 2 as a request made while document 2 was in the editor left it
InitNavigate ==
    /\ lines = <<>>
    /\ lineIndex = 0
    /\ nodes = <<>>
    /\ elements = <<>>
    /\ stack = <<>>
    /\ pc = "idle"
    /\ result = <<>>
    /\ \E text \in NavDocs : docText = [d \in DocIds |-> IF d = 1 THEN text ELSE OtherText]
    /\ activeEditor = 1
    /\ \E cached \in {Null, 2} :
          /\ currentDocument = cached
          /\ currentAxamlElements =
                IF cached = Null THEN <<>> ELSE ParseAxaml(OtherText)
    /\ showLineNumbers = TRUE
    /\ caller = "none"
    /\ toggle = NoToggle
    /\ arg = <<>>
    /\ out = <<>>
    /\ HostAtStart

\* the steps a handler takes once it has begun
HandlerStep ==
    \/ ParseAxamlCall
    \/ ParseAxamlThrows
    \/ CacheResult
    \/ NavigateFind
    \/ NavigateShowQuickPick
    \/ \E i \in 1..MaxNavLines : NavigatePick(i)
    \/ NavigateEnd
    \/ Lookup

\* what the user does: a command, a move of the cursor
UserStep ==
    \/ \E a \in NavigateArgs : NavigateToElementCommand(a)
    \/ ShowElementInfoCommand
    \/ \E active \in CursorPositions(docText[activeEditor]) :
          SelectionChanged(active)

NextNavigate ==
    \/ UserStep
    \/ SelectionTimeout
    \/ HandlerStep

SpecNavigate == InitNavigate /\ [][NextNavigate]_vars

\* the user acts as long as no selection-change event has been raised, and
\* then stops
NextQuiesce ==
    \/ cursorTimers = NoTimers /\ UserStep
    \/ SelectionTimeout
    \/ HandlerStep

\* a handler has begun and not ended: the states in which HandlerStep is
\* enabled
HandlerRunning == pc # "idle"

\* a timeout that is due runs when the event loop next turns to its timers,
\* and a handler that has begun runs on: WF_vars(HandlerStep), written with
\* HandlerRunning for ENABLED <<HandlerStep>>_vars
SpecQuiesce ==
    /\ InitNavigate
    /\ [][NextQuiesce]_vars
    /\ SF_vars(SelectionTimeout)
    /\ ([]<>(~HandlerRunning) \/ []<><<HandlerStep>>_vars)

-----------------------------------------------------------------------------
(* C33: navigation by element name *)

\* the indices of the elements of a list whose label is the name
IndicesOfName(flatElements, elementName) ==
    {i \in 1..Len(flatElements) :
        LabelChars(flatElements[i].name) = elementName}

\* the command is about to look its element name up
AtFindByName ==
    pc = "answer" /\ caller = "navigateToElement" /\ HasElementName(arg)

\* C33: called with an element name (a string that is not empty), the
\* command puts the cursor at (startLine, startColumn) of the first node, in
\* the pre-order of the forest it works on, whose label is exactly that
\* name, and shows no warning; if no node has that label it leaves the
\* cursor where it is and shows one warning.
C33_NavigatesToFirstOfName ==
    [][AtFindByName =>
          LET flat == addElementsToList(currentAxamlElements)
              hits == IndicesOfName(flat, arg.elementName)
          IN IF hits # {}
             THEN LET first == CHOOSE i \in hits : \A j \in hits : i <= j
                  IN /\ selection' = Position(flat[first].startLine,
                                              flat[first].startColumn)
                     /\ warningMessages' = warningMessages
             ELSE /\ selection' = selection
                  /\ warningMessages' = warningMessages + 1]_vars

\* C33 witness: in a document with two Buttons named n, the command called
\* with the name n has put the cursor on the first of them, while a timeout
\* of an earlier cursor move was still pending.
C33_Witness ==
    /\ pc = "idle"
    /\ Len(out) = 2
    /\ out[1] = "Navigated to: "
    /\ out[2].name = <<"n">>
    /\ selection = Position(0, 1)
    /\ warningMessages = 0
    /\ Cardinality(IndicesOfName(addElementsToList(currentAxamlElements),
                                  <<"n">>)) = 2
    /\ currentDocument = activeEditor
    /\ cursorTimers.pending > 1

-----------------------------------------------------------------------------
(* C37: a parse that fails in a handler that uses the cache *)

\* the step by which such a handler ends in its catch block
ParseFails == pc = "loop" /\ caller \in CacheUsers /\ pc' = "idle"

\* C37: when parseAxaml throws inside the navigate command, the
\* element-info command or the cursor-move handler, the handler returns at
\* once: the cache (currentDocument, currentAxamlElements) is as it was
\* before the attempt, the cursor is not moved, no pick list and no element
\* is shown; the cache is still not that of the active document, and every
\* request that finds it so parses the text of the active document.
C37_FailedParseKeepsCache ==
    /\ [][ParseFails =>
            /\ UNCHANGED <<currentDocument, currentAxamlElements, selection,
                           cursorTimers, quickPick, out, activeEditor, docText>>
            /\ currentDocument' # activeEditor']_vars
    /\ [][(pc = "idle" /\ caller' \in CacheUsers
              /\ currentDocument # activeEditor) =>
            /\ pc' = "loop"
            /\ lines' = docText[activeEditor]
            /\ lineIndex' = 0]_vars

\* C37 witness: a command on document 1 has ended with an error message
\* while the cache held the forest of document 2, and the cache still holds
\* it.
C37_Witness ==
    /\ pc = "idle"
    /\ errorMessages = 1
    /\ activeEditor = 1
    /\ currentDocument = 2
    /\ currentAxamlElements = ParseAxaml(docText[2])
    /\ currentAxamlElements # <<>>
    /\ currentAxamlElements # ParseAxaml(docText[1])

-----------------------------------------------------------------------------
(* C39: handlers do not trigger themselves *)

\* a selection-change event is raised: one more timeout is pending
EventRaised == cursorTimers'.pending > cursorTimers.pending

\* a step of onCursorPositionChanged, its first one included
CursorHandlerStep ==
    caller = "onCursorPositionChanged" \/ caller' = "onCursorPositionChanged"

\* C39: a run of the navigate command raises at most one selection-change
\* event, with its last step; the timeout an event sets runs
\* onCursorPositionChanged once; no step of onCursorPositionChanged changes
\* the cursor, the text of a document or the line-number flag, or raises an
\* event.  So once the user has stopped, the one event a navigation or a
\* move of the cursor raised leads to one run of onCursorPositionChanged,
\* and from some moment on no timeout is pending and that run has ended.
C39_EventHandlingQuiesces ==
    /\ [][CursorHandlerStep =>
            /\ UNCHANGED <<selection, docText, showLineNumbers>>
            /\ ~EventRaised]_vars
    /\ [][(caller = "navigateToElement" /\ EventRaised) =>
            /\ cursorTimers'.pending = cursorTimers.pending + 1
            /\ caller' = "none"]_vars
    /\ [][(pc = "idle" /\ caller' = "onCursorPositionChanged") =>
            /\ cursorTimers'.pending = cursorTimers.pending - 1
            /\ cursorTimers'.executed = cursorTimers.executed + 1]_vars
    /\ [](cursorTimers.executed <= 1)
    /\ <>[](/\ cursorTimers.pending = 0
            /\ cursorTimers.executed = 1 => ~HandlerRunning)

\* C39 witness: the one timeout of a navigation to a Button has run; the
\* handler found the Button under the cursor, the cursor is where the
\* navigation put it, and no timeout is pending.
C39_Witness ==
    /\ pc = "idle"
    /\ cursorTimers = [pending |-> 0, executed |-> 1]
    /\ Len(out) = 1
    /\ out[1].tagName = Button
    /\ selection = Position(out[1].startLine, out[1].startColumn)
    /\ selection.character = 1

-----------------------------------------------------------------------------
(* The two refresh edits of toggleLineNumbers and what happens between      *)
(* them.  Each `await editor.edit(...)` hands the thread back: the user may  *)
(* type before the edit is applied and between the two edits, and the host   *)
(* resolves an edit with false, without applying it, when the document has   *)
(* changed under it.                                                         *)

MaxFirstLine == 4

\* the first edit resolves false: nothing is inserted, the command goes on
\* to its second edit
ToggleInsertRejected ==
    /\ pc = "idle"
    /\ toggle.stage = "insert"
    /\ toggle' = [toggle EXCEPT !.stage = "delete"]
    /\ UNCHANGED <<hostVars, callVars, parserVars, pc, result, docText,
                   activeEditor, currentDocument, currentAxamlElements,
                   showLineNumbers, caller>>

\* the second edit resolves false: nothing is deleted, the command ends
ToggleDeleteRejected ==
    /\ pc = "idle"
    /\ toggle.stage = "delete"
    /\ toggle' = NoToggle
    /\ UNCHANGED <<hostVars, callVars, parserVars, pc, result, docText,
                   activeEditor, currentDocument, currentAxamlElements,
                   showLineNumbers, caller>>

\* the user types a character at the start of a document, also while the
\* command waits for one of its edits
UserType(d) ==
    /\ pc = "idle"
    /\ Len(docText[d][1]) < MaxFirstLine
    /\ Len(userText[d][1]) < MaxFirstLine
    /\ docText' = [docText EXCEPT ![d][1] = <<TextTok("u")>> \o @]
    /\ userText' = [userText EXCEPT ![d][1] = <<TextTok("u")>> \o @]
    /\ UNCHANGED <<hostVarsButText, callVars, parserVars, pc, result,
                   activeEditor, currentDocument, currentAxamlElements,
                   showLineNumbers, caller, toggle>>

\* the command is run while line 0 of the active document is short
ToggleCommand ==
    /\ Len(docText[activeEditor][1]) < MaxFirstLine
    /\ ToggleLineNumbers

NextToggle ==
    \/ ToggleCommand
    \/ ParseAxamlCall
    \/ ToggleAwaitEdit
    \/ ToggleInsert
    \/ ToggleInsertRejected
    \/ ToggleDelete
    \/ ToggleDeleteRejected
    \/ \E d \in DocIds : UserType(d)

SpecToggle == InitEditor /\ [][NextToggle]_vars

\* C38: whenever toggleLineNumbers is not waiting for one of its two edits,
\* the text of every document is the text it had before the command with
\* only the user's own edits applied
C38_ToggleLeavesTextUnchanged == toggle = NoToggle => docText = userText
====
